---- MODULE Spec2Model ----
(***************************************************************************)
(* Headway pipeline of mta-mf-swap: time-bucket assignment, enrichment,    *)
(* within-group headway computation and outlier filter (3_analyze.py),     *)
(* the dashboard data layer (data_loader.py) and the report consumers.     *)
(*                                                                         *)
(* Conventions of the model                                                *)
(*   - a civil date is a day index, day 0 = Friday 2025-12-05, so that     *)
(*     day 3 = Monday 2025-12-08 (SWAP_DATE);                              *)
(*   - arrival_dt is the localized instant in seconds since 00:00 of day 0 *)
(*     (no DST transition falls inside the modelled days);                 *)
(*   - a float is an exact rational <<numerator, denominator>>;            *)
(*   - a bucket label of 3_analyze.py / 4_community_output.py is the pair  *)
(*     <<prefix, name>>, e.g. <<"1:", "Early AM (12-6 AM)">> for the       *)
(*     string "1: Early AM (12-6 AM)"; str.startswith("1:") and str[:2]    *)
(*     read the first component.                                           *)
(***************************************************************************)
EXTENDS Integers, Sequences, FiniteSets, TLC

VARIABLES
    pc,          \* position of the batch run of 3_analyze.main
    df_raw,      \* table returned by load_all_data
    df,          \* table returned by add_analysis_columns
    df_hw,       \* table returned by compute_headways
    hour_in,     \* bucket assigners: the hour argument
    wd_in,       \* bucket assigners: the is_weekday argument
    bucket_out,  \* bucket assigners: label returned by each assigner
    hw_csv,      \* roosevelt_island_headways.csv, the persisted dataset
    dash_df,     \* dashboard: table returned by data_loader.load_headways
    q_call,      \* dashboard data layer: last query helper call and its result
    comm_df,     \* 4_community_output: table returned by load_and_prep
    rendered,    \* text figures written by the report / dashboard consumers
    summary,     \* tables returned by the runs of summarize_headways so far
    long_wait,   \* 4_community_output: rows selected by plot_long_wait_frequency
    raw_dir,     \* load_all_data: the *.tar.xz files of the raw directory
    ld,          \* load_all_data: its locals and its outcome
    tar_path,    \* load_one_day: the archive and file date of a single call
    day_result,  \* load_one_day: outcome of the single call
    secrets,         \* analytics: st.secrets
    session_state,   \* analytics: st.session_state of the browser session
    markdown_calls,  \* analytics: arguments of the st.markdown calls so far
    stdout,          \* analytics: [ANALYTICS] entries printed so far
    init_history,    \* analytics: session id held after each init_analytics call
    downloader,      \* 1_download: which of the two copies of the script runs
    output_dir,      \* 1_download: the files of raw_data, by date
    download,        \* 1_download: the run of main in progress and its counters
    download_log,    \* 1_download: every call of download_file so far
    scroll_listener, \* scroll tracker: maxScroll and the providers on the page loaded
    scroll_log       \* scroll tracker: the scroll events so far and what each reported

vars == <<pc, df_raw, df, df_hw, hour_in, wd_in, bucket_out,
          hw_csv, dash_df, q_call, comm_df, rendered, summary, long_wait,
          raw_dir, ld, tar_path, day_result,
          secrets, session_state, markdown_calls, stdout, init_history,
          downloader, output_dir, download, download_log,
          scroll_listener, scroll_log>>

\* Python's None, where the other values are tuples
None == <<>>

queryVars == <<hw_csv, dash_df, q_call, comm_df, rendered, summary, long_wait>>

loadVars == <<raw_dir, ld, tar_path, day_result>>

analyticsVars == <<secrets, session_state, markdown_calls, stdout, init_history>>

downloadVars == <<downloader, output_dir, download, download_log>>

scrollVars == <<scroll_listener, scroll_log>>

NoCall == [fn |-> "none"]
NothingRendered == [report |-> <<>>, talking_points |-> <<>>, dashboard |-> <<>>]

\* the query and consumer variables before any of them has run
QueryIdle ==
    /\ hw_csv = <<>>
    /\ dash_df = <<>>
    /\ q_call = NoCall
    /\ comm_df = <<>>
    /\ rendered = NothingRendered
    /\ summary = <<>>
    /\ long_wait = <<>>

\* load_all_data before its call
NotLoading == [at |-> "idle"]

\* the loader variables when no load is modelled
LoadIdle ==
    /\ raw_dir = {}
    /\ ld = NotLoading
    /\ tar_path = <<>>
    /\ day_result = <<>>

\* the analytics variables when no browser session is modelled
AnalyticsIdle ==
    /\ secrets = <<>>
    /\ session_state = <<>>
    /\ markdown_calls = <<>>
    /\ stdout = <<>>
    /\ init_history = <<>>

\* main of 1_download before its first run
NotDownloading == [at |-> "idle", run |-> 0]

\* the downloader variables when no download is modelled
DownloadIdle ==
    /\ downloader = ""
    /\ output_dir = <<>>
    /\ download = NotDownloading
    /\ download_log = <<>>

\* the scroll tracker variables when no page is modelled
ScrollIdle ==
    /\ scroll_listener = <<>>
    /\ scroll_log = <<>>

(***************************************************************************)
(* Bounds                                                                  *)
(***************************************************************************)
MaxRows == 3
MaxObs == 4
MaxFiles == 2
MaxStopTimes == 2
MaxRuns == 2
MaxCalls == 3
MaxLoaded == 3
MaxDownloadRuns == 2
MaxScrolls == 3

(***************************************************************************)
(* Exact rationals standing for floats                                     *)
(***************************************************************************)
Rat(n, d) == <<n, d>>
RatLE(a, b) == a[1] * b[2] <= b[1] * a[2]
RatLT(a, b) == a[1] * b[2] < b[1] * a[2]
RatGE(a, b) == RatLE(b, a)
RatGT(a, b) == RatLT(b, a)
RatEQ(a, b) == a[1] * b[2] = b[1] * a[2]

(***************************************************************************)
(* Configuration                                                           *)
(***************************************************************************)
B06N == <<"B", "0", "6", "N">>
B06S == <<"B", "0", "6", "S">>

\* a stop id is the sequence of its characters
ROOSEVELT_ISLAND_STOP_IDS == {B06N, B06S}

SWAP_DATE == 3

\* weekday index (Monday = 0) of day 0, a Friday
Day0Weekday == 4

TIME_BUCKETS ==
    << <<0,  6,  <<"1:", "Early AM (12-6 AM)">>,     <<"1:", "Early AM (12-6 AM)">> >>,
       <<6,  9,  <<"2:", "Morning Rush (6-9 AM)">>,  <<"2:", "Morning (6-9 AM)">> >>,
       <<9,  16, <<"3:", "Midday (9 AM-4 PM)">>,     <<"3:", "Midday (9 AM-4 PM)">> >>,
       <<16, 19, <<"4:", "Evening Rush (4-7 PM)">>,  <<"4:", "Afternoon/Evening (4-7 PM)">> >>,
       <<19, 24, <<"5:", "Night (7 PM-midnight)">>,  <<"5:", "Night (7 PM-midnight)">> >> >>

CO_TIME_BUCKETS ==
    << <<0,  6,  <<"1:", "Early AM (12-6 AM)">>,     <<"1:", "Early AM (12-6 AM)">> >>,
       <<6,  9,  <<"2:", "Morning Rush (6-9 AM)">>,  <<"2:", "Morning (6-9 AM)">> >>,
       <<9,  16, <<"3:", "Midday (9 AM-4 PM)">>,     <<"3:", "Midday (9 AM-4 PM)">> >>,
       <<16, 19, <<"4:", "Evening Rush (4-7 PM)">>,  <<"4:", "Afternoon/Evening (4-7 PM)">> >>,
       <<19, 24, <<"5:", "Night (7 PM-midnight)">>,  <<"5:", "Night (7 PM-midnight)">> >> >>

DL_TIME_BUCKETS ==
    << <<0,  6,  "Early AM (12-6 AM)">>,
       <<6,  9,  "Morning Rush (6-9 AM)">>,
       <<9,  16, "Midday (9 AM-4 PM)">>,
       <<16, 19, "Evening Rush (4-7 PM)">>,
       <<19, 24, "Night (7 PM-midnight)">> >>

(***************************************************************************)
(* Time bucket assigners.  Each is the first-match loop of the source:     *)
(* FirstMatch is the index of the first range containing the hour, 0 when  *)
(* the loop falls through to the "Unknown" return.                         *)
(***************************************************************************)
RECURSIVE FirstMatchFrom(_, _, _)
FirstMatchFrom(buckets, hour, i) ==
    IF i > Len(buckets) THEN 0
    ELSE IF buckets[i][1] <= hour /\ hour < buckets[i][2] THEN i
    ELSE FirstMatchFrom(buckets, hour, i + 1)

FirstMatch(buckets, hour) == FirstMatchFrom(buckets, hour, 1)

\* the string "Unknown" in the <<prefix, name>> representation of a label
Unknown == <<"Unknown">>

\* assign_time_bucket with the lower bound of each range taken as exclusive
RECURSIVE FirstMatchExclusiveFrom(_, _, _)
FirstMatchExclusiveFrom(buckets, hour, i) ==
    IF i > Len(buckets) THEN 0
    ELSE IF buckets[i][1] < hour /\ hour < buckets[i][2] THEN i
    ELSE FirstMatchExclusiveFrom(buckets, hour, i + 1)

assign_time_bucket_exclusive(hour, is_weekday) ==
    LET i == FirstMatchExclusiveFrom(TIME_BUCKETS, hour, 1) IN
    IF i = 0 THEN Unknown
    ELSE IF is_weekday THEN TIME_BUCKETS[i][3] ELSE TIME_BUCKETS[i][4]

assign_time_bucket(hour, is_weekday) ==
    LET i == FirstMatch(TIME_BUCKETS, hour) IN
    IF i = 0 THEN Unknown
    ELSE IF is_weekday THEN TIME_BUCKETS[i][3] ELSE TIME_BUCKETS[i][4]

assign_bucket(hour, is_weekday) ==
    LET i == FirstMatch(CO_TIME_BUCKETS, hour) IN
    IF i = 0 THEN Unknown
    ELSE IF is_weekday THEN CO_TIME_BUCKETS[i][3] ELSE CO_TIME_BUCKETS[i][4]

_assign_bucket(hour) ==
    LET i == FirstMatch(DL_TIME_BUCKETS, hour) IN
    IF i = 0 THEN "Unknown" ELSE DL_TIME_BUCKETS[i][3]

(***************************************************************************)
(* Specification of the bucket assigners: the arguments are drawn from     *)
(* every hour of the day and both day types; each action is one call site. *)
(***************************************************************************)
Hours == 0..23

\* each field holds the values returned so far: <<>> before the call
NoBuckets == [an |-> <<>>, co |-> <<>>, dl |-> <<>>]

InitBucket ==
    /\ hour_in \in Hours
    /\ wd_in \in BOOLEAN
    /\ bucket_out = NoBuckets
    /\ pc = "buckets"
    /\ df_raw = <<>>
    /\ df = <<>>
    /\ df_hw = <<>>
    /\ QueryIdle
    /\ LoadIdle
    /\ AnalyticsIdle
    /\ DownloadIdle
    /\ ScrollIdle

\* 3_analyze.add_analysis_columns: assign_time_bucket(r["hour"], r["is_weekday"])
CallAssignTimeBucket ==
    /\ pc = "buckets"
    /\ bucket_out.an = <<>>
    /\ bucket_out' = [bucket_out EXCEPT !.an = <<assign_time_bucket(hour_in, wd_in)>>]
    /\ UNCHANGED <<pc, df_raw, df, df_hw, hour_in, wd_in, queryVars, loadVars, analyticsVars, downloadVars, scrollVars>>

\* 4_community_output.load_and_prep: assign_bucket(r["hour"], r["is_weekday"])
CallAssignBucket ==
    /\ pc = "buckets"
    /\ bucket_out.co = <<>>
    /\ bucket_out' = [bucket_out EXCEPT !.co = <<assign_bucket(hour_in, wd_in)>>]
    /\ UNCHANGED <<pc, df_raw, df, df_hw, hour_in, wd_in, queryVars, loadVars, analyticsVars, downloadVars, scrollVars>>

\* data_loader._prepare: df["hour"].apply(_assign_bucket)
CallPrepareAssignBucket ==
    /\ pc = "buckets"
    /\ bucket_out.dl = <<>>
    /\ bucket_out' = [bucket_out EXCEPT !.dl = <<_assign_bucket(hour_in)>>]
    /\ UNCHANGED <<pc, df_raw, df, df_hw, hour_in, wd_in, queryVars, loadVars, analyticsVars, downloadVars, scrollVars>>

NextBucket ==
    \/ CallAssignTimeBucket
    \/ CallAssignBucket
    \/ CallPrepareAssignBucket

SpecBucket == InitBucket /\ [][NextBucket]_vars

(***************************************************************************)
(* Record Enricher: 3_analyze.add_analysis_columns                         *)
(***************************************************************************)
SecondsPerDay == 86400

\* str[-1]: a stop id is the sequence of its characters
StrLast(str) == str[Len(str)]

\* the enriched row with Saturday counted among the weekdays
add_analysis_columns_row_sat(r, i) ==
    LET arrival_date == r.arrival_dt \div SecondsPerDay
        hour         == (r.arrival_dt % SecondsPerDay) \div 3600
        minute       == (r.arrival_dt % 3600) \div 60
        day_of_week  == (Day0Weekday + arrival_date) % 7
        is_weekday   == day_of_week <= 5
    IN  [ idx          |-> i,
          stop_id      |-> r.stop_id,
          arrival_dt   |-> r.arrival_dt,
          arrival_date |-> arrival_date,
          hour         |-> hour,
          minute       |-> minute,
          day_of_week  |-> day_of_week,
          is_weekday   |-> is_weekday,
          direction    |-> StrLast(r.stop_id),
          swap_period  |-> IF arrival_date >= SWAP_DATE THEN "After swap" ELSE "Before swap",
          day_type     |-> IF is_weekday THEN "Weekday" ELSE "Weekend",
          time_bucket  |-> assign_time_bucket(hour, is_weekday) ]

add_analysis_columns_row(r, i) ==
    LET arrival_date == r.arrival_dt \div SecondsPerDay
        hour         == (r.arrival_dt % SecondsPerDay) \div 3600
        minute       == (r.arrival_dt % 3600) \div 60
        day_of_week  == (Day0Weekday + arrival_date) % 7
        is_weekday   == day_of_week < 5
    IN  [ idx          |-> i,
          stop_id      |-> r.stop_id,
          arrival_dt   |-> r.arrival_dt,
          arrival_date |-> arrival_date,
          hour         |-> hour,
          minute       |-> minute,
          day_of_week  |-> day_of_week,
          is_weekday   |-> is_weekday,
          direction    |-> StrLast(r.stop_id),
          swap_period  |-> IF arrival_date >= SWAP_DATE THEN "After swap" ELSE "Before swap",
          day_type     |-> IF is_weekday THEN "Weekday" ELSE "Weekend",
          time_bucket  |-> assign_time_bucket(hour, is_weekday) ]

\* idx is the row label of the frame (its position after concat(ignore_index))
add_analysis_columns(raw) ==
    [i \in 1..Len(raw) |-> add_analysis_columns_row(raw[i], i)]

(***************************************************************************)
(* Headway Computer: 3_analyze.compute_headways                            *)
(***************************************************************************)
\* lexicographic order of the strings that occur in the sort columns
StrOrder ==
    << "1:", "2:", "3:", "4:", "5:",
       "Afternoon/Evening (4-7 PM)", "Early AM (12-6 AM)", "Evening Rush (4-7 PM)",
       "Midday (9 AM-4 PM)", "Morning (6-9 AM)", "Morning Rush (6-9 AM)", "N",
       "Night (7 PM-midnight)", "S", "Unknown" >>

StrRank(str) == CHOOSE i \in 1..Len(StrOrder) : StrOrder[i] = str

\* a label compares as its string: prefix first, then name
LabelRank(lab) == [i \in 1..Len(lab) |-> StrRank(lab[i])]

RECURSIVE SeqLess(_, _)
SeqLess(a, b) ==
    IF b = <<>> THEN FALSE
    ELSE IF a = <<>> THEN TRUE
    ELSE IF Head(a) < Head(b) THEN TRUE
    ELSE IF Head(a) > Head(b) THEN FALSE
    ELSE SeqLess(Tail(a), Tail(b))

\* the sort key without its last column
SortKeyNoTime(r) ==
    <<r.arrival_date, StrRank(r.direction)>> \o LabelRank(r.time_bucket)

\* sort key ["arrival_date", "direction", "time_bucket", "arrival_dt"]
SortKey(r) ==
    <<r.arrival_date, StrRank(r.direction)>> \o LabelRank(r.time_bucket) \o <<r.arrival_dt>>

RECURSIVE InsertSorted(_, _)
InsertSorted(sorted, r) ==
    IF sorted = <<>> THEN <<r>>
    ELSE IF SeqLess(SortKey(r), SortKey(Head(sorted))) THEN <<r>> \o sorted
    ELSE <<Head(sorted)>> \o InsertSorted(Tail(sorted), r)

\* the frame left in the order it was loaded in
sort_values_none(t) == t

\* DataFrame.sort_values on several columns: a stable lexicographic sort
RECURSIVE sort_values(_)
sort_values(t) ==
    IF t = <<>> THEN <<>>
    ELSE InsertSorted(sort_values(SubSeq(t, 1, Len(t) - 1)), t[Len(t)])

\* grouping by day and direction only
GroupKeyNoBucket(r) == <<r.arrival_date, r.direction>>

\* grp = ["arrival_date", "direction", "time_bucket"]
GroupKey(r) == <<r.arrival_date, r.direction, r.time_bucket>>

SetMax(S) == CHOOSE x \in S : \A y \in S : y <= x

\* position shifted into row i: every row is shifted from, whatever its group
ShiftFromUngrouped(t, i) == i - 1

\* groupby(grp).shift(1): position of the previous row of the same group, 0 if none
ShiftFrom(t, i) ==
    LET before == {j \in 1..(i - 1) : GroupKey(t[j]) = GroupKey(t[i])} IN
    IF before = {} THEN 0 ELSE SetMax(before)

NaT == -1
NaN == <<0, 0>>

\* lines 177-185: the sorted frame with prev_arrival and headway_min;
\* prev_idx records which row the shifted value came from
headway_columns(t) ==
    LET df_s == sort_values(t) IN
    [i \in 1..Len(df_s) |->
        LET p == ShiftFrom(df_s, i) IN
        [ row          |-> df_s[i],
          prev_idx     |-> IF p = 0 THEN 0 ELSE df_s[p].idx,
          prev_arrival |-> IF p = 0 THEN NaT ELSE df_s[p].arrival_dt,
          headway_min  |-> IF p = 0 THEN NaN
                           ELSE Rat(df_s[i].arrival_dt - df_s[p].arrival_dt, 60) ]]

\* a floor that only rejects non-positive gaps
floor_positive(o) == RatGT(o.headway_min, Rat(0, 1))

\* df_s["headway_min"] >= 1
floor_ok(o) == RatGE(o.headway_min, Rat(1, 1))

\* one 90-minute ceiling for every bucket
ceiling_flat(o) == RatLE(o.headway_min, Rat(90, 1))

\* (early_am_mask & (headway_min <= 90)) | (~early_am_mask & (headway_min <= 60))
ceiling_ok(o) ==
    LET early_am_mask == o.row.time_bucket[1] = "1:" IN
    \/ early_am_mask /\ RatLE(o.headway_min, Rat(90, 1))
    \/ ~early_am_mask /\ RatLE(o.headway_min, Rat(60, 1))

not_na(o) == o.headway_min # NaN

\* the filters applied to the rows first and the pairing to what is left
compute_headways_filter_first(t) ==
    LET paired == headway_columns(t)
        passes(o) == ~not_na(o) \/ (floor_ok(o) /\ ceiling_ok(o))
        left == SelectSeq(paired, passes)
        rows == [i \in 1..Len(left) |-> left[i].row]
    IN  SelectSeq(SelectSeq(SelectSeq(headway_columns(rows), not_na), floor_ok), ceiling_ok)

compute_headways(t) ==
    SelectSeq(SelectSeq(SelectSeq(headway_columns(t), not_na), floor_ok), ceiling_ok)

(***************************************************************************)
(* Specification of the batch run 3_analyze.main from the loaded table on. *)
(***************************************************************************)
\* arrivals of Fri 2025-12-05 (day 0), as seconds of the day:
\* 02:00:00 03:25:00 03:45:00 08:00:00 08:00:30 08:06:30 08:59:00 09:01:00 10:26:00
FridayTimes == {7200, 12300, 13500, 28800, 28830, 29190, 32340, 32460, 37560}

\* arrivals of Sat 2025-12-06 (day 1): 08:00:00 08:06:30 09:01:00
SaturdayTimes == {28800, 29190, 32460}

ArrivalInstants ==
    FridayTimes \cup {SecondsPerDay + t : t \in SaturdayTimes}

RawRows == [stop_id : ROOSEVELT_ISLAND_STOP_IDS, arrival_dt : ArrivalInstants]

Init ==
    /\ pc = "loaded"
    /\ df_raw \in UNION {[1..n -> RawRows] : n \in 1..MaxRows}
    /\ df = <<>>
    /\ df_hw = <<>>
    /\ hour_in = 0
    /\ wd_in = FALSE
    /\ bucket_out = NoBuckets
    /\ QueryIdle
    /\ LoadIdle
    /\ AnalyticsIdle
    /\ DownloadIdle
    /\ ScrollIdle

AddAnalysisColumns ==
    /\ pc = "loaded"
    /\ df' = add_analysis_columns(df_raw)
    /\ pc' = "enriched"
    /\ UNCHANGED <<df_raw, df_hw, hour_in, wd_in, bucket_out, queryVars, loadVars, analyticsVars, downloadVars, scrollVars>>

ComputeHeadways ==
    /\ pc = "enriched"
    /\ df_hw' = compute_headways(df)
    /\ pc' = "headways"
    /\ UNCHANGED <<df_raw, df, hour_in, wd_in, bucket_out, queryVars, loadVars, analyticsVars, downloadVars, scrollVars>>

Next ==
    \/ AddAnalysisColumns
    \/ ComputeHeadways

Spec == Init /\ [][Next]_vars

(***************************************************************************)
(* Series statistics on exact rationals                                    *)
(***************************************************************************)
RECURSIVE GCD(_, _)
GCD(a, b) == IF b = 0 THEN a ELSE GCD(b, a % b)

Abs(n) == IF n < 0 THEN 0 - n ELSE n

\* lowest terms with a positive denominator; x/0 is NaN
Norm(r) ==
    IF r[2] = 0 THEN NaN
    ELSE LET g == GCD(Abs(r[1]), Abs(r[2]))
             sgn == IF r[2] < 0 THEN 0 - 1 ELSE 1
         IN  <<sgn * (r[1] \div g), sgn * (r[2] \div g)>>

\* arithmetic on values in lowest terms keeps the products small; NaN propagates
RatAdd(a, b) ==
    LET x == Norm(a)
        y == Norm(b)
    IN  Norm(<<x[1] * y[2] + y[1] * x[2], x[2] * y[2]>>)
RatSub(a, b) ==
    LET x == Norm(a)
        y == Norm(b)
    IN  Norm(<<x[1] * y[2] - y[1] * x[2], x[2] * y[2]>>)
RatMul(a, b) ==
    LET x == Norm(a)
        y == Norm(b)
    IN  Norm(<<x[1] * y[1], x[2] * y[2]>>)
RatDiv(a, b) ==
    LET x == Norm(a)
        y == Norm(b)
    IN  Norm(<<x[1] * y[2], x[2] * y[1]>>)

RECURSIVE InsertRat(_, _)
InsertRat(sorted, x) ==
    IF sorted = <<>> THEN <<x>>
    ELSE IF RatLT(x, Head(sorted)) THEN <<x>> \o sorted
    ELSE <<Head(sorted)>> \o InsertRat(Tail(sorted), x)

RECURSIVE SortRat(_)
SortRat(xs) ==
    IF xs = <<>> THEN <<>>
    ELSE InsertRat(SortRat(Tail(xs)), Head(xs))

\* Series.quantile(q) with q = qn/qd, linear interpolation between the order
\* statistics at floor and ceiling of (n-1)*q; NaN on an empty series
quantile(xs, qn, qd) ==
    IF xs = <<>> THEN NaN
    ELSE LET srt  == SortRat(xs)
             pos  == (Len(xs) - 1) * qn
             lo   == pos \div qd
             frac == Rat(pos % qd, qd)
             hi   == IF pos % qd = 0 THEN lo ELSE lo + 1
         IN  RatAdd(srt[lo + 1], RatMul(frac, RatSub(srt[hi + 1], srt[lo + 1])))

\* Series.median(): NaN on an empty series
median(xs) == quantile(xs, 1, 2)

\* number of True in a boolean series
CountTrue(bs) == Cardinality({i \in 1..Len(bs) : bs[i]})

\* Series.mean() of a boolean series: NaN on an empty series
mean_bool(bs) == IF bs = <<>> THEN NaN ELSE Rat(CountTrue(bs), Len(bs))

Column(t, c) == [i \in 1..Len(t) |-> t[i][c]]

(***************************************************************************)
(* Dashboard data layer: data_loader.py                                    *)
(***************************************************************************)
SWAP_ACTIVE_BUCKETS ==
    {"Morning Rush (6-9 AM)", "Midday (9 AM-4 PM)", "Evening Rush (4-7 PM)"}

DL_SWAP_DATE == 3

\* "Clip artifacts": ceiling chosen by hour < 6
\* one 60-minute ceiling for every hour
dl_ceiling_sixty(r) == RatLE(r.headway_min, Rat(60, 1))

dl_ceiling_ok(r) ==
    LET early_am == r.hour < 6 IN
    \/ early_am /\ RatLE(r.headway_min, Rat(90, 1))
    \/ ~early_am /\ RatLE(r.headway_min, Rat(60, 1))

dl_floor_ok(r) == RatGE(r.headway_min, Rat(1, 1))

\* _prepare_row with the active window taken from the bucket alone
_prepare_row_any_day(r) ==
    LET time_bucket == _assign_bucket(r.hour) IN
    [ arrival_dt         |-> r.arrival_dt,
      arrival_date       |-> r.arrival_date,
      hour               |-> r.hour,
      direction          |-> r.direction,
      is_weekday         |-> r.is_weekday,
      headway_min        |-> r.headway_min,
      swap_period        |-> IF r.arrival_date >= DL_SWAP_DATE
                             THEN "After swap" ELSE "Before swap",
      day_type           |-> IF r.is_weekday THEN "Weekday" ELSE "Weekend",
      time_bucket        |-> time_bucket,
      within_swap_window |-> time_bucket \in SWAP_ACTIVE_BUCKETS ]

\* the derived columns replace the persisted ones
_prepare_row(r) ==
    LET time_bucket == _assign_bucket(r.hour) IN
    [ arrival_dt         |-> r.arrival_dt,
      arrival_date       |-> r.arrival_date,
      hour               |-> r.hour,
      direction          |-> r.direction,
      is_weekday         |-> r.is_weekday,
      headway_min        |-> r.headway_min,
      swap_period        |-> IF r.arrival_date >= DL_SWAP_DATE
                             THEN "After swap" ELSE "Before swap",
      day_type           |-> IF r.is_weekday THEN "Weekday" ELSE "Weekend",
      time_bucket        |-> time_bucket,
      within_swap_window |-> r.is_weekday /\ time_bucket \in SWAP_ACTIVE_BUCKETS ]

_prepare(csv) ==
    LET kept == SelectSeq(SelectSeq(csv, dl_ceiling_ok), dl_floor_ok) IN
    [i \in 1..Len(kept) |-> _prepare_row(kept[i])]

\* get_median without the test for an empty subset
get_median_unguarded(t, day_type, bucket, direction, period) ==
    LET match(r) == /\ r.day_type = day_type
                    /\ r.time_bucket = bucket
                    /\ r.direction = direction
                    /\ r.swap_period = period
    IN  median(Column(SelectSeq(t, match), "headway_min"))

get_median(t, day_type, bucket, direction, period) ==
    LET match(r) == /\ r.day_type = day_type
                    /\ r.time_bucket = bucket
                    /\ r.direction = direction
                    /\ r.swap_period = period
        sub == Column(SelectSeq(t, match), "headway_min")
    IN  IF sub # <<>> THEN median(sub) ELSE None

\* get_pct_over without the within_swap_window selection
get_pct_over_any_hour(t, threshold, direction, period, day_type) ==
    LET match(r) == /\ r.day_type = day_type
                    /\ r.direction = direction
                    /\ r.swap_period = period
        sub == Column(SelectSeq(t, match), "headway_min")
    IN  IF sub # <<>>
        THEN RatMul(Rat(100, 1), mean_bool([i \in 1..Len(sub) |-> RatGT(sub[i], threshold)]))
        ELSE None

\* get_pct_over counting the observations at or above the threshold
get_pct_over_inclusive(t, threshold, direction, period, day_type) ==
    LET match(r) == /\ r.within_swap_window
                    /\ r.day_type = day_type
                    /\ r.direction = direction
                    /\ r.swap_period = period
        sub == Column(SelectSeq(t, match), "headway_min")
    IN  IF sub # <<>>
        THEN RatMul(Rat(100, 1), mean_bool([i \in 1..Len(sub) |-> RatGE(sub[i], threshold)]))
        ELSE None

get_pct_over(t, threshold, direction, period, day_type) ==
    LET match(r) == /\ r.within_swap_window
                    /\ r.day_type = day_type
                    /\ r.direction = direction
                    /\ r.swap_period = period
        sub == Column(SelectSeq(t, match), "headway_min")
    IN  IF sub # <<>>
        THEN RatMul(Rat(100, 1), mean_bool([i \in 1..Len(sub) |-> RatGT(sub[i], threshold)]))
        ELSE None

(***************************************************************************)
(* The persisted dataset: main writes df_hw with to_csv(index=False), so a *)
(* row keeps every column of the observation except the row label.         *)
(***************************************************************************)
to_csv_row(o) ==
    [ stop_id      |-> o.row.stop_id,
      arrival_dt   |-> o.row.arrival_dt,
      arrival_date |-> o.row.arrival_date,
      hour         |-> o.row.hour,
      minute       |-> o.row.minute,
      day_of_week  |-> o.row.day_of_week,
      is_weekday   |-> o.row.is_weekday,
      direction    |-> o.row.direction,
      swap_period  |-> o.row.swap_period,
      day_type     |-> o.row.day_type,
      time_bucket  |-> o.row.time_bucket,
      prev_arrival |-> o.prev_arrival,
      headway_min  |-> o.headway_min ]

to_csv(t) == [i \in 1..Len(t) |-> to_csv_row(t[i])]

\* the observation of an arrival at instant dt whose predecessor in the group
\* arrived gap seconds earlier
Observation(stop_id, dt, gap) ==
    [ row          |-> add_analysis_columns_row([stop_id |-> stop_id, arrival_dt |-> dt], 0),
      prev_idx     |-> 0,
      prev_arrival |-> dt - gap,
      headway_min  |-> Rat(gap, 60) ]

\* Observations a run of compute_headways can return together (each group's
\* observations cover disjoint intervals), as <<stop, day, second of day, gap>>:
\*   Fri 2025-12-05 (before, weekday)  N 17:30 5min, 17:40 10min, 18:00 20min,
\*                                     N 07:30 10min, N 20:00 20min,
\*                                     S 07:30 5min, 07:50 20min
\*   Sat 2025-12-06 (before, weekend)  N 18:00 20min, S 07:40 10min
\*   Mon 2025-12-08 (after, weekday)   N 17:40 10min, 18:00 20min, N 20:00 5min,
\*                                     S 07:40 10min, 08:00 20min
ObservationPool ==
    { <<B06N, 0, 63000, 300>>, <<B06N, 0, 63600, 600>>, <<B06N, 0, 64800, 1200>>,
      <<B06N, 0, 27000, 600>>, <<B06N, 0, 72000, 1200>>,
      <<B06S, 0, 27000, 300>>, <<B06S, 0, 28200, 1200>>,
      <<B06N, 1, 64800, 1200>>, <<B06S, 1, 27600, 600>>,
      <<B06N, 3, 63600, 600>>, <<B06N, 3, 64800, 1200>>, <<B06N, 3, 72000, 300>>,
      <<B06S, 3, 27600, 600>>, <<B06S, 3, 28800, 1200>> }

PoolRows ==
    {Observation(c[1], c[2] * SecondsPerDay + c[3], c[4]) : c \in ObservationPool}

\* the rows of S in the order compute_headways returns them
RECURSIVE SortedTable(_)
SortedTable(S) ==
    IF S = {} THEN <<>>
    ELSE LET o == CHOOSE x \in S :
                      \A y \in S : y = x \/ SeqLess(SortKey(x.row), SortKey(y.row))
         IN  <<o>> \o SortedTable(S \ {o})

\* a run that reaches the consumers has persisted at least one observation
PersistedTables ==
    {to_csv(SortedTable(S)) :
        S \in {T \in SUBSET PoolRows : T # {} /\ Cardinality(T) <= MaxObs}}

(***************************************************************************)
(* Text figures.  A rendered figure is a tuple: <<"N/A">>, <<"nan">>, or   *)
(* <<"num", n, digits>> for the number n / 10^digits that the format spec  *)
(* .{digits}f prints.                                                      *)
(***************************************************************************)
NA == <<"N/A">>

\* round(x * scale) to the nearest integer, ties to even
RoundHalfEven(x, scale) ==
    LET r   == Norm(x)
        a   == Abs(r[1]) * scale
        q   == a \div r[2]
        rem == a % r[2]
        n   == IF 2 * rem > r[2] THEN q + 1
               ELSE IF 2 * rem = r[2] THEN q + (q % 2)
               ELSE q
    IN  IF r[1] < 0 THEN 0 - n ELSE n

\* f"{x:.0f}" and f"{x:.1f}"
Fmt0(x) == IF Norm(x) = NaN THEN <<"nan">> ELSE <<"num", RoundHalfEven(x, 1), 0>>
Fmt1(x) == IF Norm(x) = NaN THEN <<"nan">> ELSE <<"num", RoundHalfEven(x, 10), 1>>

RatAbs(x) == LET r == Norm(x) IN <<Abs(r[1]), r[2]>>

\* d > 0, False when d is NaN
RatPositive(x) == LET r == Norm(x) IN r # NaN /\ r[1] > 0

\* headway_min of the rows of a category; time_bucket.str.startswith(prefix)
Category(t, day_type, bucket_prefix, direction, swap) ==
    LET match(r) == /\ r.day_type = day_type
                    /\ r.time_bucket[1] = bucket_prefix
                    /\ r.direction = direction
                    /\ r.swap_period = swap
    IN  Column(SelectSeq(t, match), "headway_min")

(***************************************************************************)
(* 3_analyze.write_report                                                  *)
(***************************************************************************)
wr_med(t, day_type, bucket_prefix, direction, swap) ==
    LET sub == Category(t, day_type, bucket_prefix, direction, swap) IN
    IF sub # <<>> THEN Fmt1(median(sub)) ELSE NA

wr_p90(t, day_type, bucket_prefix, direction, swap) ==
    LET sub == Category(t, day_type, bucket_prefix, direction, swap) IN
    IF sub # <<>> THEN Fmt1(quantile(sub, 9, 10)) ELSE NA

\* f"{abs(d):.1f} min {w} ({abs(p):.0f}%)"
wr_chg(t, day_type, bucket_prefix, direction) ==
    LET b == Category(t, day_type, bucket_prefix, direction, "Before swap")
        a == Category(t, day_type, bucket_prefix, direction, "After swap")
        d == RatSub(median(a), median(b))
        pp == RatMul(RatDiv(d, median(b)), Rat(100, 1))
        w == IF RatPositive(d) THEN "LONGER" ELSE "SHORTER"
    IN  IF b = <<>> \/ a = <<>> THEN NA
        ELSE <<"chg", Fmt1(RatAbs(d)), w, Fmt0(RatAbs(pp))>>

BucketPrefixes == {"1:", "2:", "3:", "4:", "5:"}

\* the report text: the direction named in the heading of its two sections
\* (lines 485 and 513) and the figures below it, for which every section
\* passes direction 'N'
write_report(t) ==
    [ weekday_heading |-> "Southbound (-> Manhattan)",
      weekend_heading |-> "Southbound (-> Manhattan)",
      weekday |-> [bp \in BucketPrefixes |->
          [ before_med |-> wr_med(t, "Weekday", bp, "N", "Before swap"),
            before_p90 |-> wr_p90(t, "Weekday", bp, "N", "Before swap"),
            after_med  |-> wr_med(t, "Weekday", bp, "N", "After swap"),
            after_p90  |-> wr_p90(t, "Weekday", bp, "N", "After swap"),
            chg        |-> wr_chg(t, "Weekday", bp, "N") ]],
      weekend |-> [bp \in BucketPrefixes |->
          [ before_med |-> wr_med(t, "Weekend", bp, "N", "Before swap"),
            after_med  |-> wr_med(t, "Weekend", bp, "N", "After swap"),
            chg        |-> wr_chg(t, "Weekend", bp, "N") ]] ]

(***************************************************************************)
(* 4_community_output.py                                                   *)
(***************************************************************************)
CO_SWAP_DATE == 3

CO_SWAP_ACTIVE_BUCKETS == {"2:", "3:", "4:"}

co_ceiling_ok(r) ==
    LET early_am == r.time_bucket[1] = "1:" IN
    \/ early_am /\ RatLE(r.headway_min, Rat(90, 1))
    \/ ~early_am /\ RatLE(r.headway_min, Rat(60, 1))

co_floor_ok(r) == RatGE(r.headway_min, Rat(1, 1))

\* load_and_prep_row with the cutover day itself counted as before
load_and_prep_row_exclusive(r) ==
    [r EXCEPT !.swap_period = IF r.arrival_date > CO_SWAP_DATE
                              THEN "After swap" ELSE "Before swap",
              !.day_type    = IF r.is_weekday THEN "Weekday" ELSE "Weekend",
              !.time_bucket = assign_bucket(r.hour, r.is_weekday)]

load_and_prep_row(r) ==
    [r EXCEPT !.swap_period = IF r.arrival_date >= CO_SWAP_DATE
                              THEN "After swap" ELSE "Before swap",
              !.day_type    = IF r.is_weekday THEN "Weekday" ELSE "Weekend",
              !.time_bucket = assign_bucket(r.hour, r.is_weekday)]

load_and_prep(csv) ==
    LET derived == [i \in 1..Len(csv) |-> load_and_prep_row(csv[i])] IN
    SelectSeq(SelectSeq(derived, co_ceiling_ok), co_floor_ok)

tp_med(ser) == IF ser # <<>> THEN Fmt1(median(ser)) ELSE NA
tp_p90(ser) == IF ser # <<>> THEN Fmt1(quantile(ser, 9, 10)) ELSE NA
tp_pct_over(ser, thr) ==
    IF ser # <<>>
    THEN Fmt0(RatMul(Rat(100, 1), mean_bool([i \in 1..Len(ser) |-> RatGT(ser[i], Rat(thr, 1))])))
    ELSE NA

\* f"+{p:.0f}% ({'LONGER' if d>0 else 'SHORTER'} by {abs(d):.1f} min)"
tp_chg(b, a) ==
    LET d == RatSub(median(a), median(b))
        pp == RatMul(RatDiv(d, median(b)), Rat(100, 1))
    IN  IF b = <<>> \/ a = <<>> THEN NA
        ELSE <<"chg", Fmt0(pp), IF RatPositive(d) THEN "LONGER" ELSE "SHORTER",
               Fmt1(RatAbs(d))>>

\* the figures of talking_points.txt, in the order of the text
write_talking_points(t) ==
    LET am_b    == Category(t, "Weekday", "2:", "S", "Before swap")
        am_a    == Category(t, "Weekday", "2:", "S", "After swap")
        md_b    == Category(t, "Weekday", "3:", "S", "Before swap")
        md_a    == Category(t, "Weekday", "3:", "S", "After swap")
        ev_b_nb == Category(t, "Weekday", "4:", "N", "Before swap")
        ev_a_nb == Category(t, "Weekday", "4:", "N", "After swap")
        ev_b_sb == Category(t, "Weekday", "4:", "S", "Before swap")
        ev_a_sb == Category(t, "Weekday", "4:", "S", "After swap")
        in_swap(r)  == r.time_bucket[1] \in CO_SWAP_ACTIVE_BUCKETS /\ r.day_type = "Weekday"
        swap_all == SelectSeq(t, in_swap)
        is_before(r) == r.swap_period = "Before swap"
        is_after(r)  == r.swap_period = "After swap"
        all_b   == Column(SelectSeq(swap_all, is_before), "headway_min")
        all_a   == Column(SelectSeq(swap_all, is_after), "headway_min")
        ev_pct_nb == RatMul(RatDiv(RatSub(median(ev_a_nb), median(ev_b_nb)),
                                   median(ev_b_nb)), Rat(100, 1))
        monthly_extra == IF am_b # <<>>
                         THEN RatMul(RatSub(median(am_a), median(am_b)), Rat(44, 1))
                         ELSE Rat(0, 1)
    IN  [ ev_nb_before  |-> tp_med(ev_b_nb),
          ev_nb_after   |-> tp_med(ev_a_nb),
          ev_nb_chg     |-> tp_chg(ev_b_nb, ev_a_nb),
          ev_sb_before  |-> tp_med(ev_b_sb),
          ev_sb_after   |-> tp_med(ev_a_sb),
          ev_sb_chg     |-> tp_chg(ev_b_sb, ev_a_sb),
          am_before     |-> tp_med(am_b),
          am_after      |-> tp_med(am_a),
          am_chg        |-> tp_chg(am_b, am_a),
          monthly_extra |-> Fmt0(monthly_extra),
          md_before     |-> tp_med(md_b),
          md_after      |-> tp_med(md_a),
          md_chg        |-> tp_chg(md_b, md_a),
          all_before    |-> tp_med(all_b),
          all_after     |-> tp_med(all_a),
          all_chg       |-> tp_chg(all_b, all_a),
          all_p90_before |-> tp_p90(all_b),
          all_p90_after  |-> tp_p90(all_a),
          over10_before |-> tp_pct_over(all_b, 10),
          over10_after  |-> tp_pct_over(all_a, 10),
          over15_before |-> tp_pct_over(all_b, 15),
          over15_after  |-> tp_pct_over(all_a, 15),
          headline_b_pct   |-> Fmt0(ev_pct_nb),
          framing_before   |-> Fmt0(median(am_b)),
          framing_after    |-> Fmt0(median(am_a)),
          framing_extra    |-> Fmt0(RatSub(median(am_a), median(am_b))) ]

(***************************************************************************)
(* dashboard/app.py: computed metrics and the key metrics row              *)
(***************************************************************************)
\* arithmetic or a float format spec on None raises TypeError
dashboard_metrics(t) ==
    LET ev_nb_b == get_median(t, "Weekday", "Evening Rush (4-7 PM)", "N", "Before swap")
        ev_nb_a == get_median(t, "Weekday", "Evening Rush (4-7 PM)", "N", "After swap")
        am_sb_b == get_median(t, "Weekday", "Morning Rush (6-9 AM)", "S", "Before swap")
        am_sb_a == get_median(t, "Weekday", "Morning Rush (6-9 AM)", "S", "After swap")
        pct_over_10_before == get_pct_over(t, Rat(10, 1), "N", "Before swap", "Weekday")
        pct_over_10_after  == get_pct_over(t, Rat(10, 1), "N", "After swap", "Weekday")
        ev_pct   == RatMul(RatDiv(RatSub(ev_nb_a, ev_nb_b), ev_nb_b), Rat(100, 1))
        am_pct   == RatMul(RatDiv(RatSub(am_sb_a, am_sb_b), am_sb_b), Rat(100, 1))
        am_delta == RatSub(am_sb_a, am_sb_b)
        monthly_extra == RatMul(am_delta, Rat(44, 1))
    IN  IF ev_nb_a = None \/ ev_nb_b = None
        THEN [status |-> "TypeError", line |-> 375, cards |-> <<>>]
        ELSE IF am_sb_a = None \/ am_sb_b = None
        THEN [status |-> "TypeError", line |-> 376, cards |-> <<>>]
        ELSE IF pct_over_10_after = None \/ pct_over_10_before = None
        THEN [status |-> "TypeError", line |-> 467, cards |-> <<>>]
        ELSE [status |-> "ok", line |-> 470, cards |->
                 << <<Fmt0(ev_pct), Fmt1(ev_nb_b), Fmt1(ev_nb_a)>>,
                    <<Fmt0(am_pct), Fmt1(am_sb_b), Fmt1(am_sb_a)>>,
                    <<Fmt0(monthly_extra)>>,
                    <<Fmt0(pct_over_10_after), Fmt0(pct_over_10_before)>> >>]

(***************************************************************************)
(* Specification of the consumers of the persisted dataset.  Each consumer *)
(* is a program of its own reading the same file: the dashboard            *)
(* (data_loader + app.py), 4_community_output.py and the report of         *)
(* 3_analyze.py.                                                           *)
(***************************************************************************)
DayTypes == {"Weekday", "Weekend"}
Directions == {"N", "S"}
Periods == {"Before swap", "After swap"}
DLBuckets == {DL_TIME_BUCKETS[i][3] : i \in 1..Len(DL_TIME_BUCKETS)}
Thresholds == {Rat(10, 1), Rat(20, 1)}

InitQuery ==
    /\ pc = "persisted"
    /\ hw_csv \in PersistedTables
    /\ dash_df = <<>>
    /\ q_call = NoCall
    /\ comm_df = <<>>
    /\ rendered = NothingRendered
    /\ summary = <<>>
    /\ long_wait = <<>>
    /\ LoadIdle
    /\ AnalyticsIdle
    /\ DownloadIdle
    /\ ScrollIdle
    /\ df_raw = <<>>
    /\ df = <<>>
    /\ df_hw = <<>>
    /\ hour_in = 0
    /\ wd_in = FALSE
    /\ bucket_out = NoBuckets

pipelineVars == <<df_raw, df, df_hw, hour_in, wd_in, bucket_out>>

\* app.py get_data: load_headways(source="csv") -> _load_from_csv -> _prepare
LoadHeadways ==
    /\ pc = "persisted"
    /\ dash_df' = _prepare(hw_csv)
    /\ pc' = "dashboard"
    /\ UNCHANGED <<pipelineVars, loadVars, analyticsVars, downloadVars, scrollVars, summary, long_wait, hw_csv, q_call, comm_df, rendered>>

CallGetMedian ==
    /\ pc = "dashboard"
    /\ q_call = NoCall
    /\ \E day_type \in DayTypes, bucket \in DLBuckets,
          direction \in Directions, period \in Periods :
          q_call' = [ fn        |-> "get_median",
                      day_type  |-> day_type,
                      bucket    |-> bucket,
                      direction |-> direction,
                      period    |-> period,
                      threshold |-> None,
                      result    |-> get_median(dash_df, day_type, bucket, direction, period) ]
    /\ UNCHANGED <<pipelineVars, loadVars, analyticsVars, downloadVars, scrollVars, summary, long_wait, pc, hw_csv, dash_df, comm_df, rendered>>

CallGetPctOver ==
    /\ pc = "dashboard"
    /\ q_call = NoCall
    /\ \E threshold \in Thresholds, day_type \in DayTypes,
          direction \in Directions, period \in Periods :
          q_call' = [ fn        |-> "get_pct_over",
                      day_type  |-> day_type,
                      bucket    |-> "",
                      direction |-> direction,
                      period    |-> period,
                      threshold |-> threshold,
                      result    |-> get_pct_over(dash_df, threshold, direction, period, day_type) ]
    /\ UNCHANGED <<pipelineVars, loadVars, analyticsVars, downloadVars, scrollVars, summary, long_wait, pc, hw_csv, dash_df, comm_df, rendered>>

\* app.py, module level: the computed metrics and the four metric cards
DashboardHeadlineMetrics ==
    /\ pc = "dashboard"
    /\ q_call = NoCall
    /\ rendered' = [rendered EXCEPT !.dashboard = <<dashboard_metrics(dash_df)>>]
    /\ pc' = "dashboard_done"
    /\ UNCHANGED <<pipelineVars, loadVars, analyticsVars, downloadVars, scrollVars, summary, long_wait, hw_csv, dash_df, q_call, comm_df>>

\* 4_community_output.main: load_and_prep(csv_path)
LoadAndPrep ==
    /\ pc = "persisted"
    /\ comm_df' = load_and_prep(hw_csv)
    /\ pc' = "community"
    /\ UNCHANGED <<pipelineVars, loadVars, analyticsVars, downloadVars, scrollVars, summary, long_wait, hw_csv, dash_df, q_call, rendered>>

\* 4_community_output.main: write_talking_points(df, COMMUNITY_DIR)
WriteTalkingPoints ==
    /\ pc = "community"
    /\ rendered' = [rendered EXCEPT !.talking_points = <<write_talking_points(comm_df)>>]
    /\ pc' = "community_done"
    /\ UNCHANGED <<pipelineVars, loadVars, analyticsVars, downloadVars, scrollVars, summary, long_wait, hw_csv, dash_df, q_call, comm_df>>

\* 3_analyze.main: write_report(df_hw, summary, RESULTS_DIR), on the table
\* that the same run has just persisted
WriteReport ==
    /\ pc = "persisted"
    /\ rendered' = [rendered EXCEPT !.report = <<write_report(hw_csv)>>]
    /\ pc' = "reported"
    /\ UNCHANGED <<pipelineVars, loadVars, analyticsVars, downloadVars, scrollVars, summary, long_wait, hw_csv, dash_df, q_call, comm_df>>

NextQuery ==
    \/ LoadHeadways
    \/ CallGetMedian
    \/ CallGetPctOver
    \/ DashboardHeadlineMetrics
    \/ LoadAndPrep
    \/ WriteTalkingPoints
    \/ WriteReport

SpecQuery == InitQuery /\ [][NextQuery]_vars

(***************************************************************************)
(* Loader: 3_analyze.load_one_day.  A CSV cell is the sequence of its      *)
(* characters; a tar member name is <<stem, suffix>>; an archive gives its *)
(* member names and the rows of its stop_times and trips resources.        *)
(***************************************************************************)
DigitChars == <<"0", "1", "2", "3", "4", "5", "6", "7", "8", "9">>

IsDigit(c) == \E i \in 1..Len(DigitChars) : DigitChars[i] = c

DigitValue(c) == (CHOOSE i \in 1..Len(DigitChars) : DigitChars[i] = c) - 1

RECURSIVE ParseNat(_, _)
ParseNat(cell, acc) ==
    IF cell = <<>> THEN acc
    ELSE ParseNat(Tail(cell), 10 * acc + DigitValue(Head(cell)))

\* pd.to_numeric(errors="coerce") of one cell: the number a digit string
\* denotes, NaN for an empty cell and for any other text
to_numeric(cell) ==
    IF cell # <<>> /\ \A i \in 1..Len(cell) : IsDigit(cell[i])
    THEN Rat(ParseNat(cell, 0), 1)
    ELSE NaN

\* Series.fillna(other) on one row
fillna(x, other) == IF x = NaN THEN other ELSE x

\* POSIX time of 2025-12-05 00:00 America/New_York (UTC-5)
Day0Epoch == 1764910800

\* pd.to_datetime(unit="s", utc=True).dt.tz_convert("America/New_York"),
\* as local seconds since 00:00 of day 0
to_local_datetime(timestamp) == (timestamp[1] \div timestamp[2]) - Day0Epoch

\* str.endswith on a member name
endswith(name, suffix) == name[Len(name)] = suffix

\* next((m for n, m in members.items() if n.endswith(suffix)), None)
find_member(members, suffix) ==
    LET hit(n) == endswith(n, suffix) IN
    IF SelectSeq(members, hit) = <<>> THEN None ELSE <<Head(SelectSeq(members, hit))>>

\* the trips columns of a stop_times row that matches no trip
NoTrip == [route_id |-> NaN, direction_id |-> NaN]

\* one joined row; src is the position of the row in stop_times
joined_row(l, t) ==
    [ src            |-> l.src,
      trip_uid       |-> l.trip_uid,
      stop_id        |-> l.stop_id,
      arrival_time   |-> l.arrival_time,
      departure_time |-> l.departure_time,
      route_id       |-> t.route_id,
      direction_id   |-> t.direction_id ]

\* the join with how="inner": a left row without a matching trip is dropped
RECURSIVE merge_inner(_, _)
merge_inner(left, trips) ==
    IF left = <<>> THEN <<>>
    ELSE LET l == Head(left)
             same_trip(t) == t.trip_uid = l.trip_uid
             matches == SelectSeq(trips, same_trip)
         IN  [k \in 1..Len(matches) |-> joined_row(l, matches[k])]
             \o merge_inner(Tail(left), trips)

\* stop_times.merge(trips, on="trip_uid", how="left"): the left rows in
\* order, one joined row per matching trip, NaN trip columns without a match
RECURSIVE merge_left(_, _)
merge_left(left, trips) ==
    IF left = <<>> THEN <<>>
    ELSE LET l == Head(left)
             same_trip(t) == t.trip_uid = l.trip_uid
             matches == SelectSeq(trips, same_trip)
             joined == IF matches = <<>> THEN <<joined_row(l, NoTrip)>>
                       ELSE [k \in 1..Len(matches) |-> joined_row(l, matches[k])]
         IN  joined \o merge_left(Tail(left), trips)

\* a stop filter that keeps every stop of the B line
is_line_stop(r) == r.stop_id[1] = "B"

\* stop_times["stop_id"].isin(ROOSEVELT_ISLAND_STOP_IDS)
is_target_stop(r) == r.stop_id \in ROOSEVELT_ISLAND_STOP_IDS

\* with_timestamp preferring departure_time over arrival_time
with_timestamp_departure_first(r) ==
    LET arrival_time   == to_numeric(r.arrival_time)
        departure_time == to_numeric(r.departure_time)
    IN  [ src            |-> r.src,
          trip_uid       |-> r.trip_uid,
          stop_id        |-> r.stop_id,
          arrival_time   |-> arrival_time,
          departure_time |-> departure_time,
          route_id       |-> r.route_id,
          direction_id   |-> r.direction_id,
          timestamp      |-> fillna(departure_time, arrival_time) ]

\* to_numeric on arrival_time and departure_time, then
\* timestamp = arrival_time.fillna(departure_time)
with_timestamp(r) ==
    LET arrival_time   == to_numeric(r.arrival_time)
        departure_time == to_numeric(r.departure_time)
    IN  [ src            |-> r.src,
          trip_uid       |-> r.trip_uid,
          stop_id        |-> r.stop_id,
          arrival_time   |-> arrival_time,
          departure_time |-> departure_time,
          route_id       |-> r.route_id,
          direction_id   |-> r.direction_id,
          timestamp      |-> fillna(arrival_time, departure_time) ]

\* dropna(subset=["timestamp"])
has_timestamp(r) == r.timestamp # NaN

\* arrival_dt and calendar_date of a kept row
with_arrival_dt(r, file_date) ==
    [ src            |-> r.src,
      trip_uid       |-> r.trip_uid,
      stop_id        |-> r.stop_id,
      arrival_time   |-> r.arrival_time,
      departure_time |-> r.departure_time,
      route_id       |-> r.route_id,
      direction_id   |-> r.direction_id,
      timestamp      |-> r.timestamp,
      arrival_dt     |-> to_local_datetime(r.timestamp),
      calendar_date  |-> file_date ]

\* pd.DataFrame(), and the outcome of a call that raised
EmptyFrame == [raised |-> FALSE, rows |-> <<>>]
Raised == [raised |-> TRUE, rows |-> <<>>]

load_one_day(archive, file_date) ==
    IF ~archive.readable THEN Raised
    ELSE IF \/ find_member(archive.members, "stop_times.csv") = None
            \/ find_member(archive.members, "trips.csv") = None
         THEN EmptyFrame
    ELSE LET read == [i \in 1..Len(archive.stop_times) |->
                         [ src            |-> i,
                           trip_uid       |-> archive.stop_times[i].trip_uid,
                           stop_id        |-> archive.stop_times[i].stop_id,
                           arrival_time   |-> archive.stop_times[i].arrival_time,
                           departure_time |-> archive.stop_times[i].departure_time ]]
             stop_times == SelectSeq(read, is_target_stop)
         IN  IF stop_times = <<>> THEN EmptyFrame
             ELSE LET merged == merge_left(stop_times, archive.trips)
                      timed  == [i \in 1..Len(merged) |-> with_timestamp(merged[i])]
                      kept   == SelectSeq(timed, has_timestamp)
                  IN  [ raised |-> FALSE,
                        rows   |-> [i \in 1..Len(kept) |->
                                       with_arrival_dt(kept[i], file_date)] ]

(***************************************************************************)
(* Loader: 3_analyze.load_all_data.  A file name is the sequence of its    *)
(* "_"-separated parts (what filename.split("_") returns); the date part   *)
(* is the sequence of its characters.                                      *)
(***************************************************************************)
IsLeap(y) == (y % 4 = 0 /\ y % 100 # 0) \/ y % 400 = 0

DaysInMonth(y, m) ==
    IF m = 2 THEN (IF IsLeap(y) THEN 29 ELSE 28)
    ELSE IF m \in {4, 6, 9, 11} THEN 30 ELSE 31

\* datetime.strptime(date_str, "%Y-%m-%d").date() on the zero-padded form
\* YYYY-MM-DD: <<year, month, day>>, or None where strptime raises ValueError
strptime(date_str) ==
    IF /\ Len(date_str) = 10
       /\ date_str[5] = "-"
       /\ date_str[8] = "-"
       /\ \A i \in {1, 2, 3, 4, 6, 7, 9, 10} : IsDigit(date_str[i])
    THEN LET y == ParseNat(SubSeq(date_str, 1, 4), 0)
             m == ParseNat(SubSeq(date_str, 6, 7), 0)
             d == ParseNat(SubSeq(date_str, 9, 10), 0)
         IN  IF y >= 1 /\ m \in 1..12 /\ d \in 1..DaysInMonth(y, m)
             THEN <<y, m, d>> ELSE None
    ELSE None

\* the try block on the file name: <<file_date>>, or None on IndexError
\* (no second part) and on ValueError
parse_file_date(filename) ==
    IF Len(filename) < 2 THEN None
    ELSE IF strptime(filename[2]) = None THEN None
    ELSE <<strptime(filename[2])>>

\* the file names of the model, in the order of Python's string comparison:
\*   notes.tar.xz
\*   subwaydatanyc_2025-12-05_csv.tar.xz
\*   subwaydatanyc_2025-12-08_csv.tar.xz
\*   subwaydatanyc_2025-13-01_csv.tar.xz
\*   subwaydatanyc_latest_csv.tar.xz
FileNames ==
    << << <<"notes.tar.xz">> >>,
       << <<"subwaydatanyc">>, <<"2","0","2","5","-","1","2","-","0","5">>, <<"csv.tar.xz">> >>,
       << <<"subwaydatanyc">>, <<"2","0","2","5","-","1","2","-","0","8">>, <<"csv.tar.xz">> >>,
       << <<"subwaydatanyc">>, <<"2","0","2","5","-","1","3","-","0","1">>, <<"csv.tar.xz">> >>,
       << <<"subwaydatanyc">>, <<"latest">>, <<"csv.tar.xz">> >> >>

NameRank(name) == CHOOSE i \in 1..Len(FileNames) : FileNames[i] = name

\* sorted(glob.glob(os.path.join(raw_dir, "*.tar.xz")))
RECURSIVE sorted_glob(_)
sorted_glob(dir) ==
    IF dir = {} THEN <<>>
    ELSE LET first == CHOOSE f \in dir :
                          \A g \in dir : NameRank(f.name) <= NameRank(g.name)
         IN  <<first>> \o sorted_glob(dir \ {first})

\* one pass of the for loop: the line printed for the file ("WARN" when
\* load_one_day returned an empty frame) and the frames appended to all_dfs
load_file(f) ==
    LET file_date == parse_file_date(f.name) IN
    IF file_date = None THEN [log |-> "SKIP", frames |-> <<>>]
    ELSE LET day_df == load_one_day(f.archive, file_date[1]) IN
         IF day_df.raised THEN [log |-> "ERR", frames |-> <<>>]
         ELSE IF day_df.rows # <<>> THEN [log |-> "OK", frames |-> <<day_df.rows>>]
         ELSE [log |-> "WARN", frames |-> <<>>]

\* a loop that a skipped file ends
after_pass_break(i, n, log) == IF log = "SKIP" THEN n + 1 ELSE i + 1

\* the position of the for loop after a pass over file i of n: "continue"
\* and the end of the body both go on to the next file
after_pass(i, n, log) == i + 1

\* pd.concat(all_dfs, ignore_index=True) of a non-empty list
RECURSIVE concat(_)
concat(all_dfs) ==
    IF all_dfs = <<>> THEN <<>> ELSE Head(all_dfs) \o concat(Tail(all_dfs))

(***************************************************************************)
(* Archives of the model                                                   *)
(***************************************************************************)
\* arrival / departure cells: 08:00:00 and 08:06:30 on Fri 2025-12-05,
\* 08:00:00 on Mon 2025-12-08 (local time), and a cell that is not a number
Cell_Fri_080000 == <<"1","7","6","4","9","3","9","6","0","0">>
Cell_Fri_080630 == <<"1","7","6","4","9","3","9","9","9","0">>
Cell_Mon_080000 == <<"1","7","6","5","1","9","8","8","0","0">>
Cell_Dashes == <<"-","-">>
Cell_Empty == <<>>

\* 21 St-Queensbridge, the next stop of the line
B04N == <<"B", "0", "4", "N">>

StopTime(trip_uid, stop_id, arrival_time, departure_time) ==
    [ trip_uid       |-> trip_uid,
      stop_id        |-> stop_id,
      arrival_time   |-> arrival_time,
      departure_time |-> departure_time ]

Trip(trip_uid, route_id, direction_id) ==
    [trip_uid |-> trip_uid, route_id |-> <<route_id>>, direction_id |-> Rat(direction_id, 1)]

BothMembers == << <<"subwaydatanyc_", "stop_times.csv">>, <<"subwaydatanyc_", "trips.csv">> >>

Archive(stop_times, trips) ==
    [readable |-> TRUE, members |-> BothMembers, stop_times |-> stop_times, trips |-> trips]

\* an archive that tarfile.open rejects (truncated download)
CorruptArchive ==
    [readable |-> FALSE, members |-> <<>>, stop_times |-> <<>>, trips |-> <<>>]

NoTripsArchive ==
    [ readable   |-> TRUE,
      members    |-> << <<"subwaydatanyc_", "stop_times.csv">> >>,
      stop_times |-> <<StopTime("t1", B06N, Cell_Fri_080000, Cell_Fri_080000)>>,
      trips      |-> <<>> ]

NoStopTimesArchive ==
    [ readable   |-> TRUE,
      members    |-> << <<"subwaydatanyc_", "trips.csv">> >>,
      stop_times |-> <<>>,
      trips      |-> <<Trip("t1", "F", 0)>> ]

\* the archives a directory of the model can hold
DirArchives ==
    { Archive(<< StopTime("t1", B06N, Cell_Fri_080000, Cell_Fri_080000),
                 StopTime("t1", B04N, Cell_Fri_080630, Cell_Fri_080630),
                 StopTime("t2", B06S, Cell_Empty, Cell_Fri_080630) >>,
              <<Trip("t1", "F", 0)>>),
      Archive(<< StopTime("t3", B06S, Cell_Mon_080000, Cell_Empty),
                 StopTime("t3", B06N, Cell_Dashes, Cell_Empty) >>,
              <<Trip("t3", "M", 1)>>),
      Archive(<<StopTime("t1", B04N, Cell_Fri_080000, Cell_Fri_080000)>>,
              <<Trip("t1", "F", 0)>>),
      Archive(<<StopTime("t1", B06N, Cell_Empty, Cell_Dashes)>>,
              <<Trip("t1", "F", 0)>>),
      NoTripsArchive,
      CorruptArchive }

\* the directories: at most MaxFiles files with distinct names
Directories ==
    UNION { { {[name |-> n, archive |-> content[n]] : n \in names} :
                content \in [names -> DirArchives] } :
            names \in {S \in SUBSET {FileNames[i] : i \in 1..Len(FileNames)} :
                          Cardinality(S) <= MaxFiles} }

\* the archives passed to a single call of load_one_day: every stop_times
\* table of at most MaxStopTimes rows over these cells, stops and trips
StopTimeRows ==
    { StopTime(trip_uid, stop_id, arrival_time, departure_time) :
        trip_uid \in {"t1", "t2"},
        stop_id \in {B06N, B06S, B04N},
        arrival_time \in {Cell_Fri_080000, Cell_Empty},
        departure_time \in {Cell_Fri_080630, Cell_Dashes} }

TripsTables ==
    { <<>>, <<Trip("t1", "F", 0)>>, <<Trip("t1", "F", 0), Trip("t2", "M", 1)>> }

DayArchives ==
    {CorruptArchive, NoTripsArchive, NoStopTimesArchive}
    \cup { Archive(stop_times, trips) :
             stop_times \in UNION {[1..n -> StopTimeRows] : n \in 0..MaxStopTimes},
             trips \in TripsTables }

(***************************************************************************)
(* Specification of load_all_data followed by add_analysis_columns, as in  *)
(* 3_analyze.main.  ld.log holds the line printed for each file visited.   *)
(***************************************************************************)
InitLoad ==
    /\ pc = "start"
    /\ raw_dir \in Directories
    /\ ld = NotLoading
    /\ tar_path = <<>>
    /\ day_result = <<>>
    /\ df_raw = <<>>
    /\ df = <<>>
    /\ df_hw = <<>>
    /\ hour_in = 0
    /\ wd_in = FALSE
    /\ bucket_out = NoBuckets
    /\ QueryIdle
    /\ AnalyticsIdle
    /\ DownloadIdle
    /\ ScrollIdle

loadUnchanged ==
    <<raw_dir, tar_path, day_result, df_hw, hour_in, wd_in, bucket_out,
      queryVars, analyticsVars, downloadVars, scrollVars>>

\* files = sorted(glob(...)); raise FileNotFoundError on an empty list
LoadAllDataGlob ==
    /\ pc = "start"
    /\ LET files == sorted_glob(raw_dir) IN
       IF files = <<>>
       THEN /\ ld' = [ at |-> "raised", files |-> files, i |-> 1, all_dfs |-> <<>>,
                       log |-> <<>>, error |-> "FileNotFoundError" ]
            /\ pc' = "crashed"
       ELSE /\ ld' = [ at |-> "loop", files |-> files, i |-> 1, all_dfs |-> <<>>,
                       log |-> <<>>, error |-> "" ]
            /\ pc' = "loading"
    /\ UNCHANGED <<df_raw, df, loadUnchanged>>

\* one pass of the for loop
LoadAllDataFile ==
    /\ pc = "loading"
    /\ ld.at = "loop"
    /\ ld.i <= Len(ld.files)
    /\ LET pass == load_file(ld.files[ld.i]) IN
       ld' = [ld EXCEPT !.i = after_pass(@, Len(ld.files), pass.log),
                        !.all_dfs = @ \o pass.frames,
                        !.log = Append(@, pass.log)]
    /\ UNCHANGED <<pc, df_raw, df, loadUnchanged>>

\* after the loop: pd.concat raises ValueError ("No objects to concatenate")
\* on an empty list, otherwise load_all_data returns the combined table
LoadAllDataConcat ==
    /\ pc = "loading"
    /\ ld.at = "loop"
    /\ ld.i > Len(ld.files)
    /\ IF ld.all_dfs = <<>>
       THEN /\ ld' = [ld EXCEPT !.at = "raised", !.error = "ValueError"]
            /\ pc' = "crashed"
            /\ df_raw' = df_raw
       ELSE /\ ld' = [ld EXCEPT !.at = "returned"]
            /\ pc' = "loaded"
            /\ df_raw' = concat(ld.all_dfs)
    /\ UNCHANGED <<df, loadUnchanged>>

NextLoad ==
    \/ LoadAllDataGlob
    \/ LoadAllDataFile
    \/ LoadAllDataConcat
    \/ AddAnalysisColumns

SpecLoad == InitLoad /\ [][NextLoad]_vars

(***************************************************************************)
(* Specification of a single call of load_one_day                          *)
(***************************************************************************)
InitLoadDay ==
    /\ pc = "day"
    /\ tar_path \in [archive : DayArchives, file_date : {<<2025, 12, 5>>}]
    /\ day_result = <<>>
    /\ raw_dir = {}
    /\ ld = NotLoading
    /\ df_raw = <<>>
    /\ df = <<>>
    /\ df_hw = <<>>
    /\ hour_in = 0
    /\ wd_in = FALSE
    /\ bucket_out = NoBuckets
    /\ QueryIdle
    /\ AnalyticsIdle
    /\ DownloadIdle
    /\ ScrollIdle

CallLoadOneDay ==
    /\ pc = "day"
    /\ day_result' = <<load_one_day(tar_path.archive, tar_path.file_date)>>
    /\ pc' = "day_done"
    /\ UNCHANGED <<raw_dir, ld, tar_path, df_raw, df, df_hw, hour_in, wd_in,
                   bucket_out, queryVars, analyticsVars, downloadVars, scrollVars>>

NextLoadDay == CallLoadOneDay

SpecLoadDay == InitLoadDay /\ [][NextLoadDay]_vars

(***************************************************************************)
(* 4_community_output.plot_long_wait_frequency: the rows it selects and    *)
(* the bar heights it plots.                                               *)
(***************************************************************************)
LongWaitThresholds == <<5, 8, 10, 12, 15>>

\* [100 * (ser > t).mean() for t in thresholds]
long_wait_pcts(ser) ==
    [k \in 1..Len(LongWaitThresholds) |->
        RatMul(Rat(100, 1),
               mean_bool([i \in 1..Len(ser) |->
                             RatGT(ser[i], Rat(LongWaitThresholds[k], 1))]))]

plot_long_wait_frequency(t, direction_code) ==
    LET swap_buckets(r) == r.time_bucket[1] \in CO_SWAP_ACTIVE_BUCKETS
        selected(r) == /\ r.day_type = "Weekday"
                       /\ r.direction = direction_code
                       /\ swap_buckets(r)
        is_before(r) == r.swap_period = "Before swap"
        is_after(r)  == r.swap_period = "After swap"
        subset == SelectSeq(t, selected)
        before == Column(SelectSeq(subset, is_before), "headway_min")
        after  == Column(SelectSeq(subset, is_after), "headway_min")
    IN  [ direction_code |-> direction_code,
          subset         |-> subset,
          before_pcts    |-> long_wait_pcts(before),
          after_pcts     |-> long_wait_pcts(after) ]

(***************************************************************************)
(* Specification of one arrival and its predecessor carried through the    *)
(* whole chain: 3_analyze.main up to the persisted CSV, then the dashboard *)
(* loader and the community script.  The arrival is at hh:50 of any hour   *)
(* of six days around the cutover, 10 minutes after its predecessor, or 85 *)
(* minutes after it where both fall in the night hours.                    *)
(***************************************************************************)
\* Fri 12-05, Sat 12-06, Sun 12-07, Mon 12-08, Tue 12-09, Sat 12-13
PipelineDays == {0, 1, 2, 3, 4, 8}

PipelineGaps(hour) == IF hour \in 2..5 THEN {600, 5100} ELSE {600}

PipelineTables ==
    { << [stop_id |-> stop_id, arrival_dt |-> d * SecondsPerDay + h * 3600 + 3000 - gap],
         [stop_id |-> stop_id, arrival_dt |-> d * SecondsPerDay + h * 3600 + 3000] >> :
        stop_id \in ROOSEVELT_ISLAND_STOP_IDS, d \in PipelineDays,
        h \in Hours, gap \in {600, 5100} }

InitPipeline ==
    /\ pc = "loaded"
    /\ df_raw \in {t \in PipelineTables :
                      t[2].arrival_dt - t[1].arrival_dt
                          \in PipelineGaps((t[2].arrival_dt % SecondsPerDay) \div 3600)}
    /\ df = <<>>
    /\ df_hw = <<>>
    /\ hour_in = 0
    /\ wd_in = FALSE
    /\ bucket_out = NoBuckets
    /\ QueryIdle
    /\ LoadIdle
    /\ AnalyticsIdle
    /\ DownloadIdle
    /\ ScrollIdle

\* 3_analyze.main: df_hw.to_csv(csv_path, index=False)
Persist ==
    /\ pc = "headways"
    /\ hw_csv' = to_csv(df_hw)
    /\ pc' = "persisted"
    /\ UNCHANGED <<pipelineVars, loadVars, analyticsVars, downloadVars, scrollVars, summary, long_wait,
                   dash_df, q_call, comm_df, rendered>>

\* 4_community_output.main: the two calls of plot_long_wait_frequency
PlotLongWaitFrequency ==
    /\ pc = "community"
    /\ long_wait = <<>>
    /\ \E direction_code \in Directions :
          long_wait' = <<plot_long_wait_frequency(comm_df, direction_code)>>
    /\ UNCHANGED <<pc, pipelineVars, loadVars, analyticsVars, downloadVars, scrollVars, summary,
                   hw_csv, dash_df, q_call, comm_df, rendered>>

NextPipeline ==
    \/ AddAnalysisColumns
    \/ ComputeHeadways
    \/ Persist
    \/ LoadHeadways
    \/ LoadAndPrep
    \/ PlotLongWaitFrequency

SpecPipeline == InitPipeline /\ [][NextPipeline]_vars


(***************************************************************************)
(* Aggregator: 3_analyze.summarize_headways.  A summary row holds the four *)
(* group columns, n and the five statistics; the arrow of the direction    *)
(* labels is written "->".                                                 *)
(***************************************************************************)
RECURSIVE RatSum(_)
RatSum(xs) == IF xs = <<>> THEN Rat(0, 1) ELSE RatAdd(Head(xs), RatSum(Tail(xs)))

\* Series.mean() of a non-empty float series
mean(xs) == RatDiv(RatSum(xs), Rat(Len(xs), 1))

\* a float column left as computed
round1_none(x) == Norm(x)

\* DataFrame.round(1) on one float
round1(x) == Norm(<<RoundHalfEven(x, 10), 10>>)

\* s["direction"].map({...})
DirectionLabel(direction) ==
    IF direction = "N" THEN "Northbound (-> Queens/Home)"
    ELSE "Southbound (-> Manhattan)"

\* the group columns of groupby([...]) on an observation
SummaryGroup(o) ==
    <<o.row.day_type, o.row.time_bucket, o.row.swap_period, o.row.direction>>

\* agg(...).round(1).reset_index() and the direction map, for one group
group_row(t, g) ==
    LET in_group(o) == SummaryGroup(o) = g
        x == Column(SelectSeq(t, in_group), "headway_min")
    IN  [ day_type    |-> g[1],
          time_bucket |-> g[2],
          swap_period |-> g[3],
          direction   |-> DirectionLabel(g[4]),
          n           |-> Len(x),
          median      |-> round1(median(x)),
          mean        |-> round1(mean(x)),
          p25         |-> round1(quantile(x, 1, 4)),
          p75         |-> round1(quantile(x, 3, 4)),
          p90         |-> round1(quantile(x, 9, 10)) ]

\* lexicographic order of the other strings of the summary sort columns
SummaryStrOrder ==
    << "After swap", "Before swap", "Northbound (-> Queens/Home)",
       "Southbound (-> Manhattan)", "Weekday", "Weekend" >>

SummaryStrRank(str) == CHOOSE i \in 1..Len(SummaryStrOrder) : SummaryStrOrder[i] = str

\* the key in the order of the groupby columns
SummarySortKeyGroupOrder(s) ==
    <<SummaryStrRank(s.day_type)>> \o LabelRank(s.time_bucket)
        \o <<SummaryStrRank(s.swap_period), SummaryStrRank(s.direction)>>

\* sort key ["day_type", "time_bucket", "direction", "swap_period"]
SummarySortKey(s) ==
    <<SummaryStrRank(s.day_type)>> \o LabelRank(s.time_bucket)
        \o <<SummaryStrRank(s.direction), SummaryStrRank(s.swap_period)>>

\* the orders sort_values may return for the rows S: any order that is
\* ascending in the key (rows with equal keys in either order)
RECURSIVE sort_values_orders(_)
sort_values_orders(S) ==
    IF S = {} THEN {<<>>}
    ELSE UNION { {<<m>> \o rest : rest \in sort_values_orders(S \ {m})} :
                 m \in {x \in S : \A y \in S :
                           ~SeqLess(SummarySortKey(y), SummarySortKey(x))} }

\* summarize_headways with a row for every combination of the values present
\* in the four columns, as a groupby over categories gives: a combination
\* without observations gets n = 0 and NaN statistics
summarize_headways_all_combinations(t) ==
    LET groups == {SummaryGroup(t[i]) : i \in 1..Len(t)}
        combinations ==
            {<<a[1], b[2], c[3], d[4]>> : a \in groups, b \in groups,
                                          c \in groups, d \in groups}
        empty_row(g) ==
            [ day_type    |-> g[1],
              time_bucket |-> g[2],
              swap_period |-> g[3],
              direction   |-> DirectionLabel(g[4]),
              n           |-> 0,
              median      |-> NaN,
              mean        |-> NaN,
              p25         |-> NaN,
              p75         |-> NaN,
              p90         |-> NaN ]
    IN  sort_values_orders({IF g \in groups THEN group_row(t, g) ELSE empty_row(g) :
                               g \in combinations})

\* the tables summarize_headways may return
summarize_headways(t) ==
    sort_values_orders({group_row(t, g) : g \in {SummaryGroup(t[i]) : i \in 1..Len(t)}})

(***************************************************************************)
(* Specification of the Aggregator on the observation sets, run MaxRuns    *)
(* times over the same df_hw.                                              *)
(***************************************************************************)
InitSummary ==
    /\ pc = "headways"
    /\ df_hw \in {SortedTable(S) :
                     S \in {T \in SUBSET PoolRows : T # {} /\ Cardinality(T) <= MaxObs}}
    /\ summary = <<>>
    /\ df_raw = <<>>
    /\ df = <<>>
    /\ hour_in = 0
    /\ wd_in = FALSE
    /\ bucket_out = NoBuckets
    /\ hw_csv = <<>>
    /\ dash_df = <<>>
    /\ q_call = NoCall
    /\ comm_df = <<>>
    /\ rendered = NothingRendered
    /\ long_wait = <<>>
    /\ LoadIdle
    /\ AnalyticsIdle
    /\ DownloadIdle
    /\ ScrollIdle

\* 3_analyze.main: summary = summarize_headways(df_hw)
SummarizeHeadways ==
    /\ pc = "headways"
    /\ Len(summary) < MaxRuns
    /\ \E s \in summarize_headways(df_hw) : summary' = Append(summary, s)
    /\ UNCHANGED <<pc, pipelineVars, loadVars, analyticsVars, downloadVars, scrollVars, long_wait,
                   hw_csv, dash_df, q_call, comm_df, rendered>>

NextSummary == SummarizeHeadways

SpecSummary == InitSummary /\ [][NextSummary]_vars


(***************************************************************************)
(* Dashboard analytics: dashboard/analytics.py.  A dict is a record over   *)
(* its possible keys whose field is <<>> when the key is absent and <<v>>  *)
(* when it holds v.  An injected script is <<kind, id or domain>>; a       *)
(* printed [ANALYTICS] entry keeps its event, session_id and view_count    *)
(* (its timestamp is the wall clock and is left out).                      *)
(***************************************************************************)
EmptySessionState == [analytics_session_id |-> <<>>, analytics_page_views |-> <<>>]

\* the {} default of st.secrets.get("analytics", {})
EmptySection == [google_analytics_id |-> <<>>, plausible_domain |-> <<>>]

\* dict.get(key) in a condition: None and "" are both false
truthy(entry) == entry # <<>> /\ entry[1] # ""

\* lines 24-30 with the session id regenerated on every call
init_session_state_regenerate(state, new_id) ==
    [ analytics_session_id |-> <<new_id>>,
      analytics_page_views |-> IF state.analytics_page_views = <<>>
                               THEN <<0>> ELSE state.analytics_page_views ]

\* lines 24-30: the two "not in st.session_state" initialisations; new_id is
\* the value str(uuid.uuid4()) would return
init_session_state(state, new_id) ==
    [ analytics_session_id |-> IF state.analytics_session_id = <<>>
                               THEN <<new_id>> ELSE state.analytics_session_id,
      analytics_page_views |-> IF state.analytics_page_views = <<>>
                               THEN <<0>> ELSE state.analytics_page_views ]

_inject_google_analytics(ga_id) == <<"google_analytics", ga_id>>

_inject_plausible(domain) == <<"plausible", domain>>

\* the providers as alternatives: Plausible only without Google Analytics
injected_scripts_elif(analytics_config) ==
    IF truthy(analytics_config.google_analytics_id)
    THEN <<_inject_google_analytics(analytics_config.google_analytics_id[1])>>
    ELSE IF truthy(analytics_config.plausible_domain)
    THEN <<_inject_plausible(analytics_config.plausible_domain[1])>>
    ELSE <<>>

\* lines 35-39: the st.markdown calls of the two independent if statements
injected_scripts(analytics_config) ==
    (IF truthy(analytics_config.google_analytics_id)
     THEN <<_inject_google_analytics(analytics_config.google_analytics_id[1])>>
     ELSE <<>>)
    \o (IF truthy(analytics_config.plausible_domain)
        THEN <<_inject_plausible(analytics_config.plausible_domain[1])>>
        ELSE <<>>)

\* st.session_state["analytics_page_views"] += 1 raises KeyError on a state
\* without the counter, and the entry reads the session id by subscript too
_log_page_view(state) ==
    IF state.analytics_page_views = <<>> \/ state.analytics_session_id = <<>>
    THEN [raised |-> TRUE, session_state |-> state, printed |-> <<>>]
    ELSE LET view_count == state.analytics_page_views[1] + 1 IN
         [ raised        |-> FALSE,
           session_state |-> [state EXCEPT !.analytics_page_views = <<view_count>>],
           printed       |-> << [ event      |-> "page_view",
                                  session_id |-> state.analytics_session_id[1],
                                  view_count |-> view_count ] >> ]

init_analytics(state, secrets_map, new_id) ==
    LET initialised      == init_session_state(state, new_id)
        analytics_config == IF secrets_map.analytics = <<>> THEN EmptySection
                            ELSE secrets_map.analytics[1]
        logged           == _log_page_view(initialised)
    IN  [ raised        |-> logged.raised,
          session_state |-> logged.session_state,
          markdown      |-> injected_scripts(analytics_config),
          printed       |-> logged.printed ]

(***************************************************************************)
(* Specification of one browser session of the dashboard: app.py calls     *)
(* init_analytics and track_scroll_depth on every run of the script.       *)
(* init_history records, for each call of init_analytics, what it returned *)
(* to the session: the id it left in the state, the scripts it injected    *)
(* and the entries it printed.                                             *)
(***************************************************************************)
UuidPool == {"uuid-a", "uuid-b", "uuid-c"}

AnalyticsSections ==
    [ google_analytics_id : {<<>>, <<"">>, <<"G-TEST123">>},
      plausible_domain    : {<<>>, <<"">>, <<"test.app">>} ]

\* secrets without an analytics section, and with each section
SecretsConfigs ==
    {[analytics |-> <<>>]} \cup {[analytics |-> <<a>>] : a \in AnalyticsSections}

InitAnalytics ==
    /\ pc = "session"
    /\ secrets \in SecretsConfigs
    /\ session_state = EmptySessionState
    /\ markdown_calls = <<>>
    /\ stdout = <<>>
    /\ init_history = <<>>
    /\ df_raw = <<>>
    /\ df = <<>>
    /\ df_hw = <<>>
    /\ hour_in = 0
    /\ wd_in = FALSE
    /\ bucket_out = NoBuckets
    /\ QueryIdle
    /\ LoadIdle
    /\ DownloadIdle
    /\ ScrollIdle

\* app.py line 33 (and any further call within the session)
CallInitAnalytics ==
    /\ pc = "session"
    /\ Len(init_history) < MaxCalls
    /\ \E new_id \in UuidPool :
          LET out == init_analytics(session_state, secrets, new_id) IN
          /\ session_state' = out.session_state
          /\ markdown_calls' = markdown_calls \o out.markdown
          /\ stdout' = stdout \o out.printed
          /\ init_history' = Append(init_history,
                                    [ raised     |-> out.raised,
                                      session_id |-> out.session_state.analytics_session_id,
                                      markdown   |-> out.markdown,
                                      printed    |-> out.printed ])
    /\ UNCHANGED <<pc, secrets, pipelineVars, queryVars, loadVars,
                   downloadVars, scrollVars>>

\* app.py line 419: track_scroll_depth() injects its script with st.markdown
TrackScrollDepth ==
    /\ pc = "session"
    /\ Cardinality({i \in 1..Len(markdown_calls) :
                       markdown_calls[i] = <<"scroll_depth", "">>}) < MaxCalls
    /\ markdown_calls' = Append(markdown_calls, <<"scroll_depth", "">>)
    /\ UNCHANGED <<pc, secrets, session_state, stdout, init_history,
                   pipelineVars, queryVars, loadVars,
                   downloadVars, scrollVars>>

NextAnalytics ==
    \/ CallInitAnalytics
    \/ TrackScrollDepth

SpecAnalytics == InitAnalytics /\ [][NextAnalytics]_vars


(***************************************************************************)
(* Specification of the batch run on a small table in any load order: the  *)
(* rows are arrivals of Fri 12-05 at 08:00:00, 08:00:30, 08:06:00,         *)
(* 09:01:00, 10:26:00 and 10:31:00 and of Sat 12-06 at 08:00:00 and        *)
(* 08:06:30 northbound, and of Fri 12-05 at 08:00:00 southbound, in every  *)
(* order and with repetitions.                                             *)
(***************************************************************************)
ReorderRows ==
    { [stop_id |-> B06N, arrival_dt |-> t] :
        t \in {28800, 28830, 29160, 32460, 37560, 37860,
               SecondsPerDay + 28800, SecondsPerDay + 29190} }
    \cup {[stop_id |-> B06S, arrival_dt |-> 28800]}

InitReorder ==
    /\ pc = "loaded"
    /\ df_raw \in UNION {[1..n -> ReorderRows] : n \in 1..MaxLoaded}
    /\ df = <<>>
    /\ df_hw = <<>>
    /\ hour_in = 0
    /\ wd_in = FALSE
    /\ bucket_out = NoBuckets
    /\ QueryIdle
    /\ LoadIdle
    /\ AnalyticsIdle
    /\ DownloadIdle
    /\ ScrollIdle

NextReorder ==
    \/ AddAnalysisColumns
    \/ ComputeHeadways

SpecReorder == InitReorder /\ [][NextReorder]_vars


(***************************************************************************)
(* Downloader: scripts/1_download.py and the older copy 1_download.py.     *)
(* output_dir maps a date to <<>> (no file) or <<content>>.  A reply is    *)
(* what requests.get(url, timeout=60) does when it is called: it raises a  *)
(* requests.RequestException (a timeout among them) or returns a response  *)
(* with a status code and a body.                                          *)
(***************************************************************************)
Reply(raises, status_code, content) ==
    [raises |-> raises, status_code |-> status_code, content |-> content]

\* os.path.exists(output_path)
exists(files, d) == files[d] # <<>>

\* the call without the os.path.exists test of lines 69-71
download_file_no_skip(files, d, reply) ==
    IF reply.raises
    THEN [result |-> "failed", files |-> files, requested |-> TRUE]
    ELSE IF reply.status_code = 200
    THEN [ result    |-> "ok",
           files     |-> [files EXCEPT ![d] = <<reply.content>>],
           requested |-> TRUE ]
    ELSE IF reply.status_code = 404
    THEN [result |-> "missing", files |-> files, requested |-> TRUE]
    ELSE [result |-> "failed", files |-> files, requested |-> TRUE]

\* scripts/1_download.py lines 57-90
download_file(files, d, reply) ==
    IF exists(files, d)
    THEN [result |-> "skipped", files |-> files, requested |-> FALSE]
    ELSE IF reply.raises
    THEN [result |-> "failed", files |-> files, requested |-> TRUE]
    ELSE IF reply.status_code = 200
    THEN [ result    |-> "ok",
           files     |-> [files EXCEPT ![d] = <<reply.content>>],
           requested |-> TRUE ]
    ELSE IF reply.status_code = 404
    THEN [result |-> "missing", files |-> files, requested |-> TRUE]
    ELSE [result |-> "failed", files |-> files, requested |-> TRUE]

\* 1_download.py lines 57-86: the same steps returning True or False
download_file_bool(files, d, reply) ==
    IF exists(files, d)
    THEN [result |-> "True", files |-> files, requested |-> FALSE]
    ELSE IF reply.raises
    THEN [result |-> "False", files |-> files, requested |-> TRUE]
    ELSE IF reply.status_code = 200
    THEN [ result    |-> "True",
           files     |-> [files EXCEPT ![d] = <<reply.content>>],
           requested |-> TRUE ]
    ELSE IF reply.status_code = 404
    THEN [result |-> "False", files |-> files, requested |-> TRUE]
    ELSE [result |-> "False", files |-> files, requested |-> TRUE]

NoCounts == [success |-> 0, downloaded |-> 0, skipped |-> 0, missing |-> 0, failed |-> 0]

\* scripts/1_download.py lines 108-115
count_result(counts, result) ==
    IF result = "ok" THEN [counts EXCEPT !.downloaded = @ + 1]
    ELSE IF result = "skipped" THEN [counts EXCEPT !.skipped = @ + 1]
    ELSE IF result = "missing" THEN [counts EXCEPT !.missing = @ + 1]
    ELSE [counts EXCEPT !.failed = @ + 1]

\* 1_download.py lines 102-105
count_result_bool(counts, result) ==
    IF result = "True" THEN [counts EXCEPT !.success = @ + 1]
    ELSE [counts EXCEPT !.failed = @ + 1]

(***************************************************************************)
(* Specification of repeated runs of the downloader over two dates that    *)
(* stand for the dates of MONTHS; the server's reply to each request is    *)
(* free.                                                                   *)
(***************************************************************************)
Downloaders == {"scripts/1_download.py", "1_download.py"}

DownloadDates == <<"2025-12-07", "2025-12-08">>

Replies ==
    { Reply(FALSE, 200, "body-a"), Reply(FALSE, 200, "body-b"),
      Reply(FALSE, 404, ""), Reply(FALSE, 500, ""), Reply(TRUE, 0, "") }

InitDownload ==
    /\ pc = "download"
    /\ downloader \in Downloaders
    /\ output_dir \in [{DownloadDates[i] : i \in 1..Len(DownloadDates)}
                          -> {<<>>, <<"body-old">>}]
    /\ download = NotDownloading
    /\ download_log = <<>>
    /\ df_raw = <<>>
    /\ df = <<>>
    /\ df_hw = <<>>
    /\ hour_in = 0
    /\ wd_in = FALSE
    /\ bucket_out = NoBuckets
    /\ QueryIdle
    /\ LoadIdle
    /\ AnalyticsIdle
    /\ ScrollIdle

downloadUnchanged == <<pc, downloader, pipelineVars, queryVars, loadVars, analyticsVars, scrollVars>>

\* main up to its loop
DownloadMainStart ==
    /\ pc = "download"
    /\ download.at = "idle"
    /\ download.run < MaxDownloadRuns
    /\ download' = [at |-> "loop", run |-> download.run + 1, i |-> 1, counts |-> NoCounts]
    /\ UNCHANGED <<output_dir, download_log, downloadUnchanged>>

\* one pass of the loop over the dates: the call of download_file and the
\* counter it feeds
DownloadMainFile ==
    /\ pc = "download"
    /\ download.at = "loop"
    /\ download.i <= Len(DownloadDates)
    /\ \E reply \in Replies :
          LET d   == DownloadDates[download.i]
              out == IF downloader = "scripts/1_download.py"
                     THEN download_file(output_dir, d, reply)
                     ELSE download_file_bool(output_dir, d, reply)
          IN  /\ output_dir' = out.files
              /\ download' = [download EXCEPT
                                 !.i = @ + 1,
                                 !.counts = IF downloader = "scripts/1_download.py"
                                            THEN count_result(@, out.result)
                                            ELSE count_result_bool(@, out.result)]
              /\ download_log' = Append(download_log,
                                        [ run       |-> download.run,
                                          d         |-> d,
                                          before    |-> output_dir[d],
                                          after     |-> out.files[d],
                                          requested |-> out.requested,
                                          reply     |-> IF out.requested THEN reply
                                                        ELSE Reply(FALSE, 0, ""),
                                          result    |-> out.result ])
    /\ UNCHANGED downloadUnchanged

\* the summary printed after the loop
DownloadMainEnd ==
    /\ pc = "download"
    /\ download.at = "loop"
    /\ download.i > Len(DownloadDates)
    /\ download' = [download EXCEPT !.at = "idle"]
    /\ UNCHANGED <<output_dir, download_log, downloadUnchanged>>

NextDownload ==
    \/ DownloadMainStart
    \/ DownloadMainFile
    \/ DownloadMainEnd

SpecDownload == InitDownload /\ [][NextDownload]_vars


(***************************************************************************)
(* Scroll tracker: the script injected by analytics.track_scroll_depth.    *)
(* scroll_listener holds maxScroll of the closure and whether gtag and     *)
(* plausible are defined on the page; a report is <<provider, depth>>.     *)
(***************************************************************************)
milestones == <<25, 50, 75, 100>>

\* Math.round of the non-negative quotient scrollY / scrollHeight * 100
scroll_pct(scrollY, scrollHeight) ==
    (200 * scrollY + scrollHeight) \div (2 * scrollHeight)

\* the body of the forEach callback without the maxScroll test
on_milestone_every_time(acc, scrollPct, milestone) ==
    IF scrollPct >= milestone
    THEN [maxScroll |-> milestone, fired |-> Append(acc.fired, milestone)]
    ELSE acc

\* the body of the forEach callback: lines 147-148
on_milestone(acc, scrollPct, milestone) ==
    IF scrollPct >= milestone /\ acc.maxScroll < milestone
    THEN [maxScroll |-> milestone, fired |-> Append(acc.fired, milestone)]
    ELSE acc

\* milestones.forEach from the k-th milestone on
RECURSIVE for_each(_, _, _)
for_each(acc, scrollPct, k) ==
    IF k > Len(milestones) THEN acc
    ELSE for_each(on_milestone(acc, scrollPct, milestones[k]), scrollPct, k + 1)

\* lines 150-158: the calls made for one milestone
RECURSIVE report_calls(_, _)
report_calls(listener, fired) ==
    IF fired = <<>> THEN <<>>
    ELSE (IF listener.gtag THEN <<<<"gtag", Head(fired)>>>> ELSE <<>>)
         \o (IF listener.plausible THEN <<<<"plausible", Head(fired)>>>> ELSE <<>>)
         \o report_calls(listener, Tail(fired))

\* the scroll listener: lines 141-160
on_scroll(listener, scrollY, scrollHeight) ==
    IF scrollHeight <= 0
    THEN [listener |-> listener, scrollPct |-> -1, reported |-> <<>>]
    ELSE LET scrollPct == scroll_pct(scrollY, scrollHeight)
             done == for_each([maxScroll |-> listener.maxScroll, fired |-> <<>>],
                              scrollPct, 1)
         IN  [ listener  |-> [listener EXCEPT !.maxScroll = done.maxScroll],
               scrollPct |-> scrollPct,
               reported  |-> report_calls(listener, done.fired) ]

(***************************************************************************)
(* Specification of one page load: the script has run once and scroll      *)
(* events arrive, each with the page height and position of its moment.    *)
(***************************************************************************)
\* document.documentElement.scrollHeight - window.innerHeight: a page that
\* does not scroll, and one on which each of 0..8 is a position
ScrollHeights == {0, 8}

InitScroll ==
    /\ pc = "page"
    /\ scroll_listener \in [maxScroll : {0}, gtag : BOOLEAN, plausible : BOOLEAN]
    /\ scroll_log = <<>>
    /\ df_raw = <<>>
    /\ df = <<>>
    /\ df_hw = <<>>
    /\ hour_in = 0
    /\ wd_in = FALSE
    /\ bucket_out = NoBuckets
    /\ QueryIdle
    /\ LoadIdle
    /\ AnalyticsIdle
    /\ DownloadIdle

ScrollEvent ==
    /\ pc = "page"
    /\ Len(scroll_log) < MaxScrolls
    /\ \E scrollHeight \in ScrollHeights :
       \E scrollY \in 0..scrollHeight :
          LET out == on_scroll(scroll_listener, scrollY, scrollHeight) IN
          /\ scroll_listener' = out.listener
          /\ scroll_log' = Append(scroll_log,
                                  [scrollPct |-> out.scrollPct, reported |-> out.reported])
    /\ UNCHANGED <<pc, pipelineVars, queryVars, loadVars, analyticsVars, downloadVars>>

NextScroll == ScrollEvent

SpecScroll == InitScroll /\ [][NextScroll]_vars


(***************************************************************************)
(* Properties                                                              *)
(***************************************************************************)
Range(s) == {s[i] : i \in DOMAIN s}

\* the five clock ranges and the two label sets of the design document
DocRanges == << <<0, 6>>, <<6, 9>>, <<9, 16>>, <<16, 19>>, <<19, 24>> >>

DocWeekdayNames ==
    << "Early AM (12-6 AM)", "Morning Rush (6-9 AM)", "Midday (9 AM-4 PM)",
       "Evening Rush (4-7 PM)", "Night (7 PM-midnight)" >>

DocWeekendNames ==
    << "Early AM (12-6 AM)", "Morning (6-9 AM)", "Midday (9 AM-4 PM)",
       "Afternoon/Evening (4-7 PM)", "Night (7 PM-midnight)" >>

DocRangesOf(h) == {k \in 1..5 : DocRanges[k][1] <= h /\ h < DocRanges[k][2]}

\* the entries of a bucket table that carry the label lab in column c
EntriesWith(buckets, cols, lab) ==
    {i \in 1..Len(buckets) : \E c \in cols : buckets[i][c] = lab}

\* the label lab was taken from exactly the entries whose bounds are the
\* documented range(s) containing hour h
SelectsDocRange(buckets, cols, lab, h) ==
    /\ EntriesWith(buckets, cols, lab) # {}
    /\ \A i \in EntriesWith(buckets, cols, lab) :
          \E k \in DocRangesOf(h) :
              buckets[i][1] = DocRanges[k][1] /\ buckets[i][2] = DocRanges[k][2]

DocName(h, is_weekday) ==
    LET k == CHOOSE j \in 1..5 : DocRanges[j][1] <= h /\ h < DocRanges[j][2] IN
    IF is_weekday THEN DocWeekdayNames[k] ELSE DocWeekendNames[k]

\* C7: in every component that assigns time_bucket (3_analyze, the community
\* output script and the dashboard loader) a weekday record gets the weekday
\* label of its range and a weekend record the weekend label.
C7_DayTypeLabels ==
    /\ \A lab \in Range(bucket_out.an) : lab[Len(lab)] = DocName(hour_in, wd_in)
    /\ \A lab \in Range(bucket_out.co) : lab[Len(lab)] = DocName(hour_in, wd_in)
    /\ \A lab \in Range(bucket_out.dl) : lab = DocName(hour_in, wd_in)

(***************************************************************************)
(* Headway Computer properties                                             *)
(***************************************************************************)
SameGroup(a, b) ==
    /\ a.arrival_date = b.arrival_date
    /\ a.direction = b.direction
    /\ a.time_bucket = b.time_bucket

\* row labels of the records of the group of record r
GroupOf(r) == {j \in 1..Len(df) : SameGroup(df[j], r)}

HasArrival(d, t, dir) ==
    \E i \in 1..Len(df) :
        df[i].arrival_dt = d * SecondsPerDay + t /\ df[i].direction = dir

\* C1: every observation pairs two records of the same
\* (arrival_date, direction, time_bucket) group; none pairs records whose
\* group keys differ, such as an 08:59 and a 09:01 arrival.
C1_GroupLocalPairing ==
    pc = "headways" =>
        \A o \in Range(df_hw) :
            /\ o.prev_idx \in 1..Len(df)
            /\ o.prev_idx # o.row.idx
            /\ o.row = df[o.row.idx]
            /\ df[o.prev_idx].arrival_dt = o.prev_arrival
            /\ SameGroup(df[o.prev_idx], o.row)

\* 08:00, 08:59 and 09:01 of one day and direction: 08:59 is observed, 09:01 is not
C1_Witness ==
    /\ pc = "headways"
    /\ Len(df) = 3
    /\ HasArrival(0, 28800, "S")
    /\ HasArrival(0, 32340, "S")
    /\ HasArrival(0, 32460, "S")
    /\ Len(df_hw) = 1
    /\ df_hw[1].row.arrival_dt = 32340

\* C2: for every record that is not the first of its group the computed
\* headway is its timestamp minus that of the immediately preceding record of
\* the group in timestamp order, in minutes; no record of the group lies
\* strictly between the two; each group has exactly one first record.
C2_ImmediatePredecessor ==
    pc = "headways" =>
        LET cols == headway_columns(df) IN
        /\ Len(cols) = Len(df)
        /\ \A i \in 1..Len(df) :
              Cardinality({k \in 1..Len(cols) : cols[k].row = df[i]}) >= 1
        /\ \A j \in 1..Len(df) :
              Cardinality({k \in 1..Len(cols) :
                  SameGroup(cols[k].row, df[j]) /\ cols[k].headway_min = NaN}) = 1
        /\ \A k \in 1..Len(cols) :
              LET o == cols[k] IN
              o.headway_min # NaN =>
                  /\ o.prev_idx \in GroupOf(o.row) \ {o.row.idx}
                  /\ df[o.prev_idx].arrival_dt <= o.row.arrival_dt
                  /\ o.headway_min[2] = 60
                  /\ o.headway_min[1] = o.row.arrival_dt - df[o.prev_idx].arrival_dt
                  /\ ~ \E j \in GroupOf(o.row) :
                        /\ df[o.prev_idx].arrival_dt < df[j].arrival_dt
                        /\ df[j].arrival_dt < o.row.arrival_dt
        /\ \A o \in Range(df_hw) : \E k \in 1..Len(cols) : cols[k] = o

\* arrivals at 08:00:00 and 08:06:30 give exactly one observation of 6.5 minutes
C2_Witness ==
    /\ pc = "headways"
    /\ Len(df) = 2
    /\ HasArrival(0, 28800, "N")
    /\ HasArrival(0, 29190, "N")
    /\ Len(df_hw) = 1
    /\ RatEQ(df_hw[1].headway_min, Rat(13, 2))
    /\ df_hw[1].row.arrival_dt = 29190

\* C3: every observation has headway_min >= 1, and a record whose gap is
\* below one minute has no observation at all (it is not clamped to 1).
C3_HeadwayFloor ==
    pc = "headways" =>
        /\ \A o \in Range(df_hw) : 60 * 1 <= o.headway_min[1] /\ o.headway_min[2] = 60
        /\ \A c \in Range(headway_columns(df)) :
              (c.headway_min # NaN /\ c.headway_min[1] < 60) =>
                  ~ \E o \in Range(df_hw) : o.row.idx = c.row.idx

\* arrivals at 08:00:00 and 08:00:30: no observation
C3_Witness ==
    /\ pc = "headways"
    /\ Len(df) = 2
    /\ HasArrival(0, 28800, "N")
    /\ HasArrival(0, 28830, "N")
    /\ df_hw = <<>>

C4_WitnessMidday ==
    /\ pc = "headways"
    /\ Len(df) = 2
    /\ HasArrival(0, 32460, "S")
    /\ HasArrival(0, 37560, "S")
    /\ df_hw = <<>>

GroupMin(r) ==
    CHOOSE t \in {df[j].arrival_dt : j \in GroupOf(r)} :
        \A j \in GroupOf(r) : t <= df[j].arrival_dt

\* C5: the earliest record of each group is never the later member of an
\* observation; a group of k records yields at most k-1 observations and a
\* group of one record none.
C5_FirstInGroup ==
    pc = "headways" =>
        /\ \A o \in Range(df_hw) : o.row.arrival_dt > GroupMin(o.row)
        /\ \A j \in 1..Len(df) :
              Cardinality({k \in 1..Len(df_hw) : SameGroup(df_hw[k].row, df[j])})
                  <= Cardinality(GroupOf(df[j])) - 1

\* three records in three groups of one record each next to each other in
\* the sort order (08:59 and 09:01 northbound, 09:01 southbound): no observation
C5_Witness ==
    /\ pc = "headways"
    /\ Len(df) = 3
    /\ HasArrival(0, 32340, "N")
    /\ HasArrival(0, 32460, "N")
    /\ HasArrival(0, 32460, "S")
    /\ df_hw = <<>>

(***************************************************************************)
(* Query layer properties                                                  *)
(***************************************************************************)
\* rows of the dashboard table selected by the filters of the last call
MedianSubset ==
    {i \in 1..Len(dash_df) :
        /\ dash_df[i].day_type = q_call.day_type
        /\ dash_df[i].time_bucket = q_call.bucket
        /\ dash_df[i].direction = q_call.direction
        /\ dash_df[i].swap_period = q_call.period}

PctSubset ==
    {i \in 1..Len(dash_df) :
        /\ dash_df[i].within_swap_window
        /\ dash_df[i].day_type = q_call.day_type
        /\ dash_df[i].direction = q_call.direction
        /\ dash_df[i].swap_period = q_call.period}

IsNumber(x) == Len(x) = 2 /\ x[2] # 0

\* C8: get_median and get_pct_over return None whenever the subset selected
\* by their filters is empty (no NaN from a division by zero, no 0), and a
\* number otherwise.
C8_EmptySubsetIsNone ==
    /\ q_call.fn = "get_median" =>
          IF MedianSubset = {} THEN q_call.result = None ELSE IsNumber(q_call.result)
    /\ q_call.fn = "get_pct_over" =>
          IF PctSubset = {} THEN q_call.result = None ELSE IsNumber(q_call.result)

\* a dataset with weekday evening-rush northbound rows before the swap only,
\* queried for that category after the swap
C8_Witness ==
    /\ q_call.fn = "get_median"
    /\ q_call.day_type = "Weekday"
    /\ q_call.bucket = "Evening Rush (4-7 PM)"
    /\ q_call.direction = "N"
    /\ q_call.period = "After swap"
    /\ Len(dash_df) >= 2
    /\ q_call.result = None

C8_WitnessPct ==
    /\ q_call.fn = "get_pct_over"
    /\ Len(dash_df) >= 2
    /\ q_call.result = None

\* C9: on a non-empty subset get_pct_over returns 100 * (observations
\* strictly above the threshold) / (observations of the subset), the subset
\* being the within_swap_window rows of the given day type, direction and
\* period; the result lies in [0, 100].
C9_PctOver ==
    (q_call.fn = "get_pct_over" /\ PctSubset # {}) =>
        LET over == {i \in PctSubset :
                        dash_df[i].headway_min[1] * q_call.threshold[2]
                            > q_call.threshold[1] * dash_df[i].headway_min[2]}
        IN  /\ IsNumber(q_call.result)
            /\ q_call.result[2] > 0
            /\ q_call.result[1] * Cardinality(PctSubset)
                   = 100 * Cardinality(over) * q_call.result[2]
            /\ 0 <= q_call.result[1]
            /\ q_call.result[1] <= 100 * q_call.result[2]

\* three in-window observations of 5, 10 and 20 minutes against the threshold
\* 10: only the 20-minute one counts, a third of the subset
C9_Witness ==
    /\ q_call.fn = "get_pct_over"
    /\ q_call.threshold = Rat(10, 1)
    /\ Cardinality(PctSubset) = 3
    /\ \E i \in PctSubset : RatEQ(dash_df[i].headway_min, Rat(10, 1))
    /\ RatEQ(q_call.result, Rat(100, 3))

(***************************************************************************)
(* Consumer properties                                                     *)
(***************************************************************************)
\* the category has no observation in table t (labels with a prefix)
NoObs(t, day_type, bucket_prefix, direction, swap) ==
    ~ \E i \in 1..Len(t) :
        /\ t[i].day_type = day_type
        /\ t[i].time_bucket[1] = bucket_prefix
        /\ t[i].direction = direction
        /\ t[i].swap_period = swap

\* the same for the dashboard table (labels without a prefix)
NoObsDash(t, bucket, direction, swap) ==
    ~ \E i \in 1..Len(t) :
        /\ t[i].day_type = "Weekday"
        /\ t[i].time_bucket = bucket
        /\ t[i].direction = direction
        /\ t[i].swap_period = swap

NoObsActive(t, swap) ==
    ~ \E i \in 1..Len(t) :
        /\ t[i].day_type = "Weekday"
        /\ t[i].time_bucket[1] \in {"2:", "3:", "4:"}
        /\ t[i].swap_period = swap

ReportRendersNA ==
    \A rep \in Range(rendered.report) : \A bp \in BucketPrefixes :
        /\ NoObs(hw_csv, "Weekday", bp, "N", "Before swap") =>
              /\ rep.weekday[bp].before_med = NA
              /\ rep.weekday[bp].before_p90 = NA
              /\ rep.weekday[bp].chg = NA
        /\ NoObs(hw_csv, "Weekday", bp, "N", "After swap") =>
              /\ rep.weekday[bp].after_med = NA
              /\ rep.weekday[bp].after_p90 = NA
              /\ rep.weekday[bp].chg = NA
        /\ NoObs(hw_csv, "Weekend", bp, "N", "Before swap") =>
              /\ rep.weekend[bp].before_med = NA
              /\ rep.weekend[bp].chg = NA
        /\ NoObs(hw_csv, "Weekend", bp, "N", "After swap") =>
              /\ rep.weekend[bp].after_med = NA
              /\ rep.weekend[bp].chg = NA

TalkingPointsRenderNA ==
    \A tp \in Range(rendered.talking_points) :
        LET ev_nb_b == NoObs(comm_df, "Weekday", "4:", "N", "Before swap")
            ev_nb_a == NoObs(comm_df, "Weekday", "4:", "N", "After swap")
            ev_sb_b == NoObs(comm_df, "Weekday", "4:", "S", "Before swap")
            ev_sb_a == NoObs(comm_df, "Weekday", "4:", "S", "After swap")
            am_b    == NoObs(comm_df, "Weekday", "2:", "S", "Before swap")
            am_a    == NoObs(comm_df, "Weekday", "2:", "S", "After swap")
            md_b    == NoObs(comm_df, "Weekday", "3:", "S", "Before swap")
            md_a    == NoObs(comm_df, "Weekday", "3:", "S", "After swap")
            all_b   == NoObsActive(comm_df, "Before swap")
            all_a   == NoObsActive(comm_df, "After swap")
        IN  /\ ev_nb_b => tp.ev_nb_before = NA
            /\ ev_nb_a => tp.ev_nb_after = NA
            /\ (ev_nb_b \/ ev_nb_a) => tp.ev_nb_chg = NA /\ tp.headline_b_pct = NA
            /\ ev_sb_b => tp.ev_sb_before = NA
            /\ ev_sb_a => tp.ev_sb_after = NA
            /\ (ev_sb_b \/ ev_sb_a) => tp.ev_sb_chg = NA
            /\ am_b => tp.am_before = NA /\ tp.framing_before = NA
            /\ am_a => tp.am_after = NA /\ tp.framing_after = NA
            /\ (am_b \/ am_a) =>
                  tp.am_chg = NA /\ tp.monthly_extra = NA /\ tp.framing_extra = NA
            /\ md_b => tp.md_before = NA
            /\ md_a => tp.md_after = NA
            /\ (md_b \/ md_a) => tp.md_chg = NA
            /\ all_b => /\ tp.all_before = NA
                        /\ tp.all_p90_before = NA
                        /\ tp.over10_before = NA
                        /\ tp.over15_before = NA
            /\ all_a => /\ tp.all_after = NA
                        /\ tp.all_p90_after = NA
                        /\ tp.over10_after = NA
                        /\ tp.over15_after = NA
            /\ (all_b \/ all_a) => tp.all_chg = NA

DashboardRendersNA ==
    \A d \in Range(rendered.dashboard) :
        LET ev_nb_b == NoObsDash(dash_df, "Evening Rush (4-7 PM)", "N", "Before swap")
            ev_nb_a == NoObsDash(dash_df, "Evening Rush (4-7 PM)", "N", "After swap")
            am_sb_b == NoObsDash(dash_df, "Morning Rush (6-9 AM)", "S", "Before swap")
            am_sb_a == NoObsDash(dash_df, "Morning Rush (6-9 AM)", "S", "After swap")
        IN  /\ ev_nb_b => d.status = "ok" /\ d.cards[1][2] = NA
            /\ ev_nb_a => d.status = "ok" /\ d.cards[1][3] = NA
            /\ (ev_nb_b \/ ev_nb_a) => d.status = "ok" /\ d.cards[1][1] = NA
            /\ am_sb_b => d.status = "ok" /\ d.cards[2][2] = NA
            /\ am_sb_a => d.status = "ok" /\ d.cards[2][3] = NA
            /\ (am_sb_b \/ am_sb_a) =>
                  d.status = "ok" /\ d.cards[2][1] = NA /\ d.cards[3][1] = NA

\* C10: whenever a category queried by a consumer has no observations the
\* consumer renders "N/A" for that figure and neither raises nor shows a
\* zero or NaN: write_report, write_talking_points and the dashboard's
\* headline metrics.
C10_EmptyCategoryRendersNA ==
    /\ ReportRendersNA
    /\ TalkingPointsRenderNA
    /\ DashboardRendersNA


(***************************************************************************)
(* Loader properties                                                       *)
(***************************************************************************)
\* C11: load_all_data raises only when the directory holds no *.tar.xz file;
\* with at least one file it returns a table, also when every file is
\* skipped, yields no matching record or fails to load.
C11_RaisesOnlyOnEmptyDirectory ==
    ld.at = "raised" => raw_dir = {}

\* what the claim lists as a per-file problem
BadFileName(f) ==
    \/ Len(f.name) < 2
    \/ f.name[2] \notin { <<"2","0","2","5","-","1","2","-","0","5">>,
                          <<"2","0","2","5","-","1","2","-","0","8">> }

MissingResource(f) ==
    \/ ~\E k \in 1..Len(f.archive.members) : f.archive.members[k][2] = "stop_times.csv"
    \/ ~\E k \in 1..Len(f.archive.members) : f.archive.members[k][2] = "trips.csv"

NoTargetRows(f) ==
    ~\E k \in 1..Len(f.archive.stop_times) :
        f.archive.stop_times[k].stop_id \in {B06N, B06S}

ProblemFile(f) ==
    BadFileName(f) \/ ~f.archive.readable \/ MissingResource(f) \/ NoTargetRows(f)

\* the date in the name of a file that has no problem
FileDateOf(f) ==
    IF f.name[2] = <<"2","0","2","5","-","1","2","-","0","5">>
    THEN <<2025, 12, 5>> ELSE <<2025, 12, 8>>

\* the records the first n files contribute: none for a problem file
RECURSIVE Contributions(_, _)
Contributions(files, n) ==
    IF n = 0 THEN <<>>
    ELSE Contributions(files, n - 1)
         \o (IF ProblemFile(files[n]) THEN <<>>
             ELSE load_one_day(files[n].archive, FileDateOf(files[n])).rows)

\* C12: a problem file contributes no record and does not stop the loop:
\* the files are visited one by one in sorted order up to the last, a problem
\* file never prints OK, and the frames collected (and the table returned)
\* are the records of the files loaded successfully.
C12_ProblemFileIsSkipped ==
    ld.at \in {"loop", "returned"} \/ (ld.at = "raised" /\ raw_dir # {}) =>
        /\ Len(ld.log) = ld.i - 1
        /\ ld.i <= Len(ld.files) + 1
        /\ ld.at # "loop" => ld.i = Len(ld.files) + 1
        /\ \A k \in 1..Len(ld.files) - 1 :
              NameRank(ld.files[k].name) < NameRank(ld.files[k + 1].name)
        /\ {ld.files[k] : k \in 1..Len(ld.files)} = raw_dir
        /\ \A k \in 1..Len(ld.log) : ProblemFile(ld.files[k]) => ld.log[k] # "OK"
        /\ concat(ld.all_dfs) = Contributions(ld.files, ld.i - 1)
        /\ ld.at = "returned" => df_raw = Contributions(ld.files, Len(ld.files))

\* a file with a problem is followed by a file that loads, and the run returns
C12_Witness ==
    /\ ld.at = "returned"
    /\ df_raw # <<>>
    /\ \E k \in 1..Len(ld.log) : \E j \in k + 1..Len(ld.log) :
          ld.log[k] \in {"SKIP", "ERR", "WARN"} /\ ld.log[j] = "OK"

\* C13: every record returned by load_one_day and load_all_data is at stop
\* B06N or B06S, the other rows being removed from stop_times ahead of the
\* join, and every enriched record has direction "N" or "S".
C13_TargetStopsOnly ==
    /\ ld # NotLoading =>
          \A a \in 1..Len(ld.all_dfs) : \A k \in 1..Len(ld.all_dfs[a]) :
              ld.all_dfs[a][k].stop_id \in {B06N, B06S}
    /\ \A k \in 1..Len(df_raw) : df_raw[k].stop_id \in {B06N, B06S}
    /\ \A k \in 1..Len(df) :
          /\ df[k].stop_id \in {B06N, B06S}
          /\ df[k].direction \in {"N", "S"}

\* a file that holds a row of another stop has been loaded and enriched
C13_Witness ==
    /\ pc = "enriched"
    /\ df # <<>>
    /\ \E k \in 1..Len(ld.files) :
          /\ ld.log[k] = "OK"
          /\ \E j \in 1..Len(ld.files[k].archive.stop_times) :
                ld.files[k].archive.stop_times[j].stop_id = B04N

\* the cells of the model that denote a number, and the number
CellNumber(cell) ==
    IF cell = Cell_Fri_080000 THEN <<Rat(1764939600, 1)>>
    ELSE IF cell = Cell_Fri_080630 THEN <<Rat(1764939990, 1)>>
    ELSE IF cell = Cell_Mon_080000 THEN <<Rat(1765198800, 1)>>
    ELSE <<>>

\* a call of load_one_day that reached the time columns
ReachedTimeColumns ==
    /\ pc = "day_done"
    /\ tar_path.archive.readable
    /\ ~MissingResource(tar_path)
    /\ ~NoTargetRows(tar_path)

\* C20: the timestamp of a loaded record is its arrival_time when that is a
\* number and its departure_time otherwise, and a row of a target stop is
\* dropped exactly when neither cell is a number.
C20_TimestampFallback ==
    ReachedTimeColumns =>
        LET st   == tar_path.archive.stop_times
            rows == day_result[1].rows
        IN  /\ ~day_result[1].raised
            /\ \A k \in 1..Len(rows) :
                  LET a == CellNumber(st[rows[k].src].arrival_time)
                      d == CellNumber(st[rows[k].src].departure_time)
                  IN  /\ a # <<>> => rows[k].timestamp = a[1]
                      /\ a = <<>> => d # <<>> /\ rows[k].timestamp = d[1]
            /\ \A i \in 1..Len(st) :
                  st[i].stop_id \in {B06N, B06S} =>
                      ( (~\E k \in 1..Len(rows) : rows[k].src = i)
                        <=> /\ CellNumber(st[i].arrival_time) = <<>>
                            /\ CellNumber(st[i].departure_time) = <<>> )

\* one row falls back to departure_time and another row is dropped
C20_Witness ==
    /\ ReachedTimeColumns
    /\ \E k \in 1..Len(day_result[1].rows) :
          LET r == day_result[1].rows[k] IN
          /\ tar_path.archive.stop_times[r.src].arrival_time = Cell_Empty
          /\ r.timestamp = Rat(1764939990, 1)
    /\ \E i \in 1..Len(tar_path.archive.stop_times) :
          /\ tar_path.archive.stop_times[i].stop_id \in {B06N, B06S}
          /\ tar_path.archive.stop_times[i].arrival_time = Cell_Empty
          /\ tar_path.archive.stop_times[i].departure_time = Cell_Dashes
          /\ ~\E k \in 1..Len(day_result[1].rows) : day_result[1].rows[k].src = i

(***************************************************************************)
(* Properties of the derived columns along the chain                       *)
(***************************************************************************)
\* the period of an arrival instant: its local date against Mon 2025-12-08
PeriodOf(arrival_dt) ==
    IF arrival_dt \div 86400 \in {0, 1, 2} THEN "Before swap" ELSE "After swap"

\* C14: swap_period is "After swap" exactly when the local arrival date is
\* 2025-12-08 or later, the cutover day included, and the analysis script,
\* the community script and the dashboard loader give the same period.
C14_SwapPeriod ==
    /\ \A i \in 1..Len(df) : df[i].swap_period = PeriodOf(df[i].arrival_dt)
    /\ \A i \in 1..Len(hw_csv) : hw_csv[i].swap_period = PeriodOf(hw_csv[i].arrival_dt)
    /\ \A i \in 1..Len(dash_df) : dash_df[i].swap_period = PeriodOf(dash_df[i].arrival_dt)
    /\ \A i \in 1..Len(comm_df) : comm_df[i].swap_period = PeriodOf(comm_df[i].arrival_dt)
    /\ pc \in {"dashboard", "community"} =>
          \A i \in 1..Len(hw_csv) :
              /\ _prepare_row(hw_csv[i]).swap_period = hw_csv[i].swap_period
              /\ load_and_prep_row(hw_csv[i]).swap_period = hw_csv[i].swap_period

\* an arrival of the cutover day has gone through the community script
C14_Witness ==
    /\ pc = "community"
    /\ \E i \in 1..Len(comm_df) :
          /\ comm_df[i].arrival_dt \div 86400 = 3
          /\ comm_df[i].swap_period = "After swap"

\* an arrival of the eve of the cutover has gone through the dashboard loader
C14_WitnessEve ==
    /\ pc = "dashboard"
    /\ \E i \in 1..Len(dash_df) :
          /\ dash_df[i].arrival_dt \div 86400 = 2
          /\ dash_df[i].swap_period = "Before swap"

\* Friday, Monday and Tuesday among the days of the model
OnWeekday(arrival_dt) == arrival_dt \div 86400 \in {0, 3, 4}

\* between 06:00 and 19:00
InActiveHours(arrival_dt) == (arrival_dt % 86400) \div 3600 \in 6..18

\* the rows a consumer treats as active, as <<arrival_dt, direction>>
DashboardActive(t) ==
    {<<t[i].arrival_dt, t[i].direction>> : i \in {j \in 1..Len(t) : t[j].within_swap_window}}

CommunityActive(t) ==
    UNION { LET sel == plot_long_wait_frequency(t, d).subset
            IN  {<<sel[i].arrival_dt, sel[i].direction>> : i \in 1..Len(sel)} :
            d \in {"N", "S"} }

\* C17: within_swap_window is derived: true exactly for weekday rows of the
\* Morning Rush, Midday and Evening Rush buckets, that is weekday rows with
\* hour in [6, 19); never for Night, Early AM or weekend rows; the community
\* script selects the same rows as the dashboard loader.
C17_ActiveWindow ==
    /\ \A i \in 1..Len(dash_df) :
          LET r == dash_df[i] IN
          /\ r.within_swap_window <=>
                /\ r.is_weekday
                /\ r.time_bucket \in {"Morning Rush (6-9 AM)", "Midday (9 AM-4 PM)",
                                      "Evening Rush (4-7 PM)"}
          /\ r.within_swap_window <=> (OnWeekday(r.arrival_dt) /\ InActiveHours(r.arrival_dt))
          /\ r.time_bucket \in {"Night (7 PM-midnight)", "Early AM (12-6 AM)"}
                => ~r.within_swap_window
          /\ ~OnWeekday(r.arrival_dt) => ~r.within_swap_window
    /\ long_wait # <<>> =>
          \A i \in 1..Len(comm_df) :
              (\E k \in 1..Len(long_wait[1].subset) : long_wait[1].subset[k] = comm_df[i])
              <=> /\ comm_df[i].direction = long_wait[1].direction_code
                  /\ OnWeekday(comm_df[i].arrival_dt)
                  /\ InActiveHours(comm_df[i].arrival_dt)
    /\ pc \in {"dashboard", "community"} =>
          DashboardActive(_prepare(hw_csv)) = CommunityActive(load_and_prep(hw_csv))

\* a weekday row of the active hours flagged by the loader
C17_Witness ==
    /\ pc = "dashboard"
    /\ \E i \in 1..Len(dash_df) :
          /\ dash_df[i].within_swap_window
          /\ dash_df[i].hour = 18

\* a Saturday morning row left out by the loader
C17_WitnessWeekend ==
    /\ pc = "dashboard"
    /\ \E i \in 1..Len(dash_df) :
          /\ ~dash_df[i].within_swap_window
          /\ dash_df[i].time_bucket = "Morning Rush (6-9 AM)"
          /\ dash_df[i].arrival_date = 1

\* a weekday row of the active hours selected by the community script
C17_WitnessCommunity ==
    /\ pc = "community"
    /\ long_wait # <<>>
    /\ long_wait[1].subset # <<>>

(***************************************************************************)
(* Aggregator properties                                                   *)
(***************************************************************************)
\* the documented order: day type, bucket, direction, period, each compared
\* as the text of its label
DocSummaryKey(s) ==
    << IF s.day_type = "Weekday" THEN 1 ELSE 2,
       CHOOSE k \in 1..5 : <<"1:", "2:", "3:", "4:", "5:">>[k] = s.time_bucket[1],
       IF s.direction = "Northbound (-> Queens/Home)" THEN 1 ELSE 2,
       IF s.swap_period = "After swap" THEN 1 ELSE 2 >>

\* C15: the rows of summarize_headways are sorted by (day_type, time_bucket,
\* direction, period), and the runs over the same observations return the
\* same table, row order included.
C15_SortedAndRepeatable ==
    /\ \A k \in 1..Len(summary) :
          \A i \in 1..Len(summary[k]) : \A j \in 1..Len(summary[k]) :
              i < j => SeqLess(DocSummaryKey(summary[k][i]), DocSummaryKey(summary[k][j]))
    /\ \A k \in 1..Len(summary) : \A l \in 1..Len(summary) : summary[k] = summary[l]

\* two runs over observations of one bucket whose groups come in another
\* order from groupby: northbound before the swap, southbound after it
C15_Witness ==
    /\ Len(summary) >= 2
    /\ \E i \in 1..Len(summary[1]) : \E j \in 1..Len(summary[1]) :
          /\ i < j
          /\ summary[1][i].day_type = summary[1][j].day_type
          /\ summary[1][i].time_bucket = summary[1][j].time_bucket
          /\ summary[1][i].direction = "Northbound (-> Queens/Home)"
          /\ summary[1][i].swap_period = "Before swap"
          /\ summary[1][j].direction = "Southbound (-> Manhattan)"
          /\ summary[1][j].swap_period = "After swap"

\* observation o belongs to the group of summary row s
InRow(o, s) ==
    /\ o.row.day_type = s.day_type
    /\ o.row.time_bucket = s.time_bucket
    /\ o.row.swap_period = s.swap_period
    /\ (o.row.direction = "N") = (s.direction = "Northbound (-> Queens/Home)")
    /\ (o.row.direction = "S") = (s.direction = "Southbound (-> Manhattan)")

\* the headways of the observations of df_hw that a summary row stands for
RowValues(s) ==
    LET in_row(o) == InRow(o, s) IN
    Column(SelectSeq(df_hw, in_row), "headway_min")

\* the ascending arrangement of a series
Ascending(xs) ==
    CHOOSE p \in [1..Len(xs) -> {xs[i] : i \in 1..Len(xs)}] :
        /\ \A v \in {xs[i] : i \in 1..Len(xs)} :
              Cardinality({i \in 1..Len(xs) : p[i] = v})
                  = Cardinality({i \in 1..Len(xs) : xs[i] = v})
        /\ \A i \in 1..Len(xs) - 1 : RatLE(p[i], p[i + 1])

\* the percentile qn/qd by linear interpolation: with h = (n - 1) * qn / qd,
\* the weighted mean of the order statistics below and above h
LinearPercentile(xs, qn, qd) ==
    LET a  == Ascending(xs)
        h  == (Len(xs) - 1) * qn
        lo == h \div qd
        hi == IF h % qd = 0 THEN lo ELSE lo + 1
        w  == Rat(h % qd, qd)
    IN  RatAdd(RatMul(RatSub(Rat(1, 1), w), a[lo + 1]), RatMul(w, a[hi + 1]))

\* v is x to one decimal place: a multiple of 1/10 at most 1/20 away from x
ToOneDecimal(v, x) ==
    /\ 10 % Norm(v)[2] = 0
    /\ RatLE(RatAbs(RatSub(v, x)), Rat(1, 20))

\* C16: one summary row per (day_type, time_bucket, swap_period, direction)
\* group; its n is the number of observations of the group and its median,
\* mean, p25, p75 and p90 are the group's median, arithmetic mean and
\* linearly interpolated percentiles, each to one decimal place.
C16_GroupStatistics ==
    \A k \in 1..Len(summary) :
        LET s == summary[k] IN
        /\ \A i \in 1..Len(df_hw) :
              Cardinality({j \in 1..Len(s) : InRow(df_hw[i], s[j])}) = 1
        /\ \A j \in 1..Len(s) :
              LET x == RowValues(s[j]) IN
              /\ x # <<>>
              /\ s[j].n = Len(x)
              /\ ToOneDecimal(s[j].median, LinearPercentile(x, 1, 2))
              /\ ToOneDecimal(s[j].mean, RatDiv(RatSum(x), Rat(Len(x), 1)))
              /\ ToOneDecimal(s[j].p25, LinearPercentile(x, 1, 4))
              /\ ToOneDecimal(s[j].p75, LinearPercentile(x, 3, 4))
              /\ ToOneDecimal(s[j].p90, LinearPercentile(x, 9, 10))

\* a group of three observations (5, 10 and 20 minutes): the mean 35/3 is
\* reported as 11.7 and the percentiles fall between the observations
C16_Witness ==
    /\ summary # <<>>
    /\ \E j \in 1..Len(summary[1]) :
          /\ summary[1][j].n = 3
          /\ summary[1][j].mean = Rat(117, 10)
          /\ summary[1][j].median = Rat(10, 1)
          /\ summary[1][j].p25 = Rat(15, 2)
          /\ summary[1][j].p90 = Rat(18, 1)

\* C18: after n calls of init_analytics in one session the page-view counter
\* is n (and the k-th printed page view carries view count k), and the
\* session id is the one the first call generated, unchanged by later calls.
C18_CounterAndSessionId ==
    pc = "session" =>
        LET n == Len(init_history) IN
        /\ session_state.analytics_page_views = (IF n = 0 THEN <<>> ELSE <<n>>)
        /\ Len(stdout) = n
        /\ \A k \in 1..n :
              /\ stdout[k].view_count = k
              /\ init_history[k].session_id # <<>>
              /\ init_history[k].session_id = init_history[1].session_id
              /\ stdout[k].session_id = init_history[1].session_id[1]
        /\ session_state.analytics_session_id
              = (IF n = 0 THEN <<>> ELSE init_history[1].session_id)

\* three calls were made: the counter is 3 and the id is the first call's
C18_Witness ==
    /\ pc = "session"
    /\ Len(init_history) = 3
    /\ session_state.analytics_page_views = <<3>>
    /\ session_state.analytics_session_id = <<"uuid-b">>

Configured(key) ==
    /\ secrets.analytics # <<>>
    /\ secrets.analytics[1][key] \notin {<<>>, <<"">>}

ScriptCount(calls, kind) ==
    Cardinality({m \in 1..Len(calls) : calls[m][1] = kind})

\* C19: init_analytics never raises, whatever the secrets hold; a call
\* injects the Google Analytics script (once, with the configured id) iff
\* google_analytics_id is configured, the Plausible script (once, with the
\* configured domain) iff plausible_domain is configured, and logs exactly
\* one page view.
C19_InitInjectsAsConfigured ==
    pc = "session" =>
        \A k \in 1..Len(init_history) :
            LET call == init_history[k] IN
            /\ ~call.raised
            /\ ScriptCount(call.markdown, "google_analytics")
                  = (IF Configured("google_analytics_id") THEN 1 ELSE 0)
            /\ ScriptCount(call.markdown, "plausible")
                  = (IF Configured("plausible_domain") THEN 1 ELSE 0)
            /\ \A m \in 1..Len(call.markdown) :
                  \/ /\ call.markdown[m][1] = "google_analytics"
                     /\ <<call.markdown[m][2]>> = secrets.analytics[1].google_analytics_id
                  \/ /\ call.markdown[m][1] = "plausible"
                     /\ <<call.markdown[m][2]>> = secrets.analytics[1].plausible_domain
            /\ Len(call.printed) = 1
            /\ call.printed[1].event = "page_view"

\* both providers configured: one call injected both scripts
C19_Witness ==
    /\ pc = "session"
    /\ Configured("google_analytics_id")
    /\ Configured("plausible_domain")
    /\ Len(init_history) >= 1
    /\ init_history[1].markdown
          = <<<<"google_analytics", "G-TEST123">>, <<"plausible", "test.app">>>>

\* no analytics section at all: the call injected nothing and logged a view
C19_WitnessNoSection ==
    /\ pc = "session"
    /\ secrets.analytics = <<>>
    /\ Len(init_history) >= 1
    /\ init_history[1].markdown = <<>>
    /\ Len(stdout) >= 1

\* the trips of the archive with the trip key of stop_times row i
TripsOf(i) ==
    LET same_trip(t) == t.trip_uid = tar_path.archive.stop_times[i].trip_uid
    IN  SelectSeq(tar_path.archive.trips, same_trip)

\* C21: the join with the trips table is a left join: every row of a target
\* stop whose arrival or departure cell is a number appears in the result,
\* with the route of its trip when the trips table has one and with an
\* unknown (NaN) route and direction_id when it has none.
C21_LeftJoinKeepsUnmatched ==
    ReachedTimeColumns =>
        LET st   == tar_path.archive.stop_times
            rows == day_result[1].rows
        IN  \A i \in 1..Len(st) :
               ( /\ st[i].stop_id \in {B06N, B06S}
                 /\ \/ CellNumber(st[i].arrival_time) # <<>>
                    \/ CellNumber(st[i].departure_time) # <<>> )
               => /\ \E k \in 1..Len(rows) : rows[k].src = i
                  /\ \A k \in 1..Len(rows) :
                        rows[k].src = i =>
                           IF TripsOf(i) = <<>>
                           THEN /\ rows[k].route_id = NaN
                                /\ rows[k].direction_id = NaN
                           ELSE \E m \in 1..Len(TripsOf(i)) :
                                   /\ rows[k].route_id = TripsOf(i)[m].route_id
                                   /\ rows[k].direction_id = TripsOf(i)[m].direction_id

\* a trips table that knows only trip t1, and a loaded row of trip t2 with
\* unknown route beside a loaded row of t1 on route F
C21_Witness ==
    /\ ReachedTimeColumns
    /\ tar_path.archive.trips = <<Trip("t1", "F", 0)>>
    /\ \E k \in 1..Len(day_result[1].rows) :
          /\ day_result[1].rows[k].trip_uid = "t2"
          /\ day_result[1].rows[k].route_id = NaN
    /\ \E k \in 1..Len(day_result[1].rows) :
          /\ day_result[1].rows[k].trip_uid = "t1"
          /\ day_result[1].rows[k].route_id = <<"F">>

\* Monday = 0 .. Sunday = 6 for the days 2025-12-05 .. 2025-12-13
CalendarWeekday == <<4, 5, 6, 0, 1, 2, 3, 4, 5>>

\* C22: add_analysis_columns gives one output row per input row, in the
\* input's order and carrying the input's stop and arrival; is_weekday is
\* true exactly when the weekday index (Monday = 0) of the arrival's date
\* is below 5, day_type is "Weekday" exactly when is_weekday is true and
\* "Weekend" otherwise, direction is the last character of stop_id, and
\* the table is a function of the input alone.
C22_OneRowPerRecord ==
    pc # "loaded" =>
        /\ Len(df) = Len(df_raw)
        /\ df = add_analysis_columns(df_raw)
        /\ \A i \in 1..Len(df) :
              /\ df[i].idx = i
              /\ df[i].stop_id = df_raw[i].stop_id
              /\ df[i].arrival_dt = df_raw[i].arrival_dt
              /\ df[i].day_of_week = CalendarWeekday[df_raw[i].arrival_dt \div 86400 + 1]
              /\ df[i].is_weekday <=> df[i].day_of_week < 5
              /\ df[i].day_type = "Weekday" <=> df[i].is_weekday
              /\ df[i].day_type = "Weekend" <=> ~df[i].is_weekday
              /\ df[i].direction = df_raw[i].stop_id[Len(df_raw[i].stop_id)]
              /\ df[i].direction \in {"N", "S"}

\* a northbound arrival of Saturday 12-13 enriched as a weekend row
C22_Witness ==
    /\ pc = "enriched"
    /\ Len(df) = 2
    /\ df_raw[2].stop_id = B06N
    /\ df_raw[2].arrival_dt \div 86400 = 8
    /\ df[2].day_of_week = 5
    /\ df[2].day_type = "Weekend"
    /\ df[2].direction = "N"

\* a southbound arrival of Monday 12-08 enriched as a weekday row
C22_WitnessWeekday ==
    /\ pc = "enriched"
    /\ df_raw[1].stop_id = B06S
    /\ df_raw[1].arrival_dt \div 86400 = 3
    /\ df[1].day_of_week = 0
    /\ df[1].day_type = "Weekday"
    /\ df[1].direction = "S"

\* the observations of a headway table as (group key, timestamp, headway)
Observations(t) ==
    {<<GroupKey(t[i].row), t[i].row.arrival_dt, t[i].headway_min>> : i \in 1..Len(t)}

\* the orders in which n loaded rows can be concatenated
Orders(n) == {p \in [1..n -> 1..n] : \A i, j \in 1..n : p[i] = p[j] => i = j}

Reordered(t, p) == [i \in 1..Len(t) |-> t[p[i]]]

\* C23: the observations (group key, timestamp, headway value) that
\* compute_headways produces are the same for every order in which the
\* loaded rows are concatenated.
C23_LoadOrderIndependent ==
    pc = "headways" =>
        \A p \in Orders(Len(df_raw)) :
            Observations(compute_headways(add_analysis_columns(Reordered(df_raw, p))))
                = Observations(df_hw)

\* three arrivals loaded latest first, of which the earliest is of another
\* day: the one observation pairs the two of the same day
C23_Witness ==
    /\ pc = "headways"
    /\ Len(df_raw) = 3
    /\ df_raw[1].arrival_dt > df_raw[2].arrival_dt
    /\ df_raw[2].arrival_dt > df_raw[3].arrival_dt
    /\ df_raw[1].arrival_dt \div 86400 = 1
    /\ df_raw[3].arrival_dt \div 86400 = 0
    /\ Len(df_hw) = 1
    /\ df_hw[1].row.idx = 1
    /\ df_hw[1].prev_idx = 2

\* the last call before call k for the same date, 0 if there is none
PreviousCall(k) ==
    LET earlier == {j \in 1..(k - 1) : download_log[j].d = download_log[k].d}
    IN  IF earlier = {} THEN 0 ELSE CHOOSE j \in earlier : \A i \in earlier : i <= j

\* what C24 says of every call of download_file made so far, where
\* Returned[outcome] is the value the call returns for that outcome
DownloadOutcomes(Returned) ==
    \A k \in 1..Len(download_log) :
        LET e == download_log[k] IN
        /\ e.before # <<>> =>
              /\ e.result = Returned["skipped"]
              /\ ~e.requested
              /\ e.after = e.before
        /\ e.before = <<>> =>
              /\ e.requested
              /\ IF ~e.reply.raises /\ e.reply.status_code = 200
                 THEN e.result = Returned["ok"] /\ e.after = <<e.reply.content>>
                 ELSE IF ~e.reply.raises /\ e.reply.status_code = 404
                 THEN e.result = Returned["missing"] /\ e.after = <<>>
                 ELSE e.result = Returned["failed"] /\ e.after = <<>>
        /\ PreviousCall(k) # 0 =>
              /\ e.before = download_log[PreviousCall(k)].after
              /\ e.requested <=> download_log[PreviousCall(k)].result
                                    \in {Returned["missing"], Returned["failed"]}

Outcomes == {"skipped", "ok", "missing", "failed"}

\* the four outcomes returned by name
ByName == [outcome \in Outcomes |-> outcome]

\* the names under scripts/, True or False in the older copy
ByCopy ==
    [outcome \in Outcomes |->
        IF downloader = "scripts/1_download.py" THEN outcome
        ELSE IF outcome \in {"skipped", "ok"} THEN "True" ELSE "False"]

\* C24 as stated: over any sequence of runs of the downloader,
\* download_file returns "skipped" without a request when the date's file
\* exists and leaves the file as it was; otherwise it requests the file and
\* returns "ok" after a 200 whose body it has written, "missing" after a
\* 404 and "failed" after any other status or a request error, creating no
\* file in the last two cases; a later run requests exactly the dates that
\* were missing or failed before.
C24_DownloadOutcomes == pc = "download" => DownloadOutcomes(ByName)

\* C24 as amended: the same requests, files and re-requests in both copies
\* of the script, with the four outcomes returned by name by
\* scripts/1_download.py and as True ("skipped", "ok") or False ("missing",
\* "failed") by 1_download.py.
C24_DownloadOutcomesByCopy == pc = "download" => DownloadOutcomes(ByCopy)

\* two runs of scripts/1_download.py: the first got a 404 and a timeout, the
\* second requested both dates again and got one of them
C24_Witness ==
    /\ pc = "download"
    /\ downloader = "scripts/1_download.py"
    /\ Len(download_log) = 4
    /\ download_log[1].result = "missing"
    /\ download_log[2].result = "failed"
    /\ download_log[2].reply.raises
    /\ download_log[3].result = "ok"
    /\ download_log[4].result = "failed"
    /\ output_dir["2025-12-07"] = <<"body-a">>
    /\ output_dir["2025-12-08"] = <<>>

\* the older copy: a file found on disk is skipped and returns True, a 404
\* returns False, and the second run requests only the date still missing
C24_WitnessOlderCopy ==
    /\ pc = "download"
    /\ downloader = "1_download.py"
    /\ Len(download_log) = 4
    /\ download_log[1].before = <<"body-old">>
    /\ download_log[1].result = "True"
    /\ download_log[2].reply.status_code = 404
    /\ download_log[2].result = "False"
    /\ ~download_log[3].requested
    /\ download_log[4].requested
    /\ download_log[4].result = "True"
    /\ output_dir["2025-12-07"] = <<"body-old">>

\* the direction code a heading names under the convention of the module
\* docstring: N = Northbound, S = Southbound
HeadingCode(heading) ==
    IF heading = "Southbound (-> Manhattan)" THEN "S" ELSE "N"

\* C25: the figures under a report heading are computed from the
\* observations of the direction the heading names: "S" under "Southbound
\* (-> Manhattan)", "N" under a Northbound heading.
C25_HeadingMatchesDirection ==
    pc = "reported" =>
        LET r == rendered.report[1] IN
        \A bp \in BucketPrefixes :
            /\ r.weekday[bp].before_med
                  = wr_med(hw_csv, "Weekday", bp, HeadingCode(r.weekday_heading), "Before swap")
            /\ r.weekday[bp].after_med
                  = wr_med(hw_csv, "Weekday", bp, HeadingCode(r.weekday_heading), "After swap")
            /\ r.weekday[bp].before_p90
                  = wr_p90(hw_csv, "Weekday", bp, HeadingCode(r.weekday_heading), "Before swap")
            /\ r.weekday[bp].after_p90
                  = wr_p90(hw_csv, "Weekday", bp, HeadingCode(r.weekday_heading), "After swap")
            /\ r.weekday[bp].chg
                  = wr_chg(hw_csv, "Weekday", bp, HeadingCode(r.weekday_heading))
            /\ r.weekend[bp].before_med
                  = wr_med(hw_csv, "Weekend", bp, HeadingCode(r.weekend_heading), "Before swap")
            /\ r.weekend[bp].after_med
                  = wr_med(hw_csv, "Weekend", bp, HeadingCode(r.weekend_heading), "After swap")
            /\ r.weekend[bp].chg
                  = wr_chg(hw_csv, "Weekend", bp, HeadingCode(r.weekend_heading))

\* the depths reported to a provider, in the order of the calls
RECURSIVE ReportedTo(_, _)
ReportedTo(provider, k) ==
    IF k = 0 THEN <<>>
    ELSE LET calls == scroll_log[k].reported
             mine(c) == c[1] = provider
             sel == SelectSeq(calls, mine)
         IN  ReportedTo(provider, k - 1) \o [i \in 1..Len(sel) |-> sel[i][2]]

ProviderDefined(provider) ==
    IF provider = "gtag" THEN scroll_listener.gtag ELSE scroll_listener.plausible

\* C26: over any sequence of scroll events of one page load, the depths
\* reported to a provider are among 25, 50, 75 and 100, strictly ascending
\* (so each at most once), a depth is reported only by an event whose
\* scroll percentage has reached it, and a first scroll straight to 100%
\* reports all four, once each and in order, to every provider defined.
C26_ScrollMilestones ==
    pc = "page" =>
        /\ \A provider \in {"gtag", "plausible"} :
              LET depths == ReportedTo(provider, Len(scroll_log)) IN
              /\ \A i \in 1..Len(depths) : depths[i] \in {25, 50, 75, 100}
              /\ \A i \in 1..(Len(depths) - 1) : depths[i] < depths[i + 1]
              /\ (~ProviderDefined(provider)) => depths = <<>>
              /\ ( /\ ProviderDefined(provider)
                   /\ scroll_log # <<>>
                   /\ scroll_log[1].scrollPct = 100 )
                 => depths = <<25, 50, 75, 100>>
        /\ \A k \in 1..Len(scroll_log) :
              \A c \in 1..Len(scroll_log[k].reported) :
                  scroll_log[k].reported[c][2] <= scroll_log[k].scrollPct

\* 50%, back up to 13%, then the bottom: 25 and 50 at the first event,
\* nothing at the second, 75 and 100 at the third
C26_Witness ==
    /\ pc = "page"
    /\ scroll_listener.gtag
    /\ ~scroll_listener.plausible
    /\ Len(scroll_log) = 3
    /\ scroll_log[1].scrollPct = 50
    /\ scroll_log[2].scrollPct = 13
    /\ scroll_log[3].scrollPct = 100
    /\ scroll_log[1].reported = <<<<"gtag", 25>>, <<"gtag", 50>>>>
    /\ scroll_log[2].reported = <<>>
    /\ scroll_log[3].reported = <<<<"gtag", 75>>, <<"gtag", 100>>>>

\* a first scroll straight to the bottom with both providers on the page
C26_WitnessJump ==
    /\ pc = "page"
    /\ scroll_listener.gtag
    /\ scroll_listener.plausible
    /\ Len(scroll_log) >= 2
    /\ scroll_log[1].scrollPct = 100
    /\ ReportedTo("gtag", 1) = <<25, 50, 75, 100>>
    /\ ReportedTo("plausible", Len(scroll_log)) = <<25, 50, 75, 100>>
    /\ scroll_listener.maxScroll = 100

\* the arrivals of the table in the group of observation o that are earlier
\* than o, whether or not they gave an observation themselves
EarlierInGroup(o) ==
    {df[i].arrival_dt : i \in {j \in 1..Len(df) :
                                 /\ GroupKey(df[j]) = GroupKey(o.row)
                                 /\ df[j].arrival_dt < o.row.arrival_dt}}

\* C27: the filters run after the pairing and nothing is paired again: the
\* headway of every observation is measured from the latest earlier arrival
\* of its group in the table, also when that arrival's own observation was
\* dropped by the floor or the ceiling.  For arrivals at t, t + 30 s and
\* t + 6 min in one group the only observation is the third, 5.5 minutes
\* after the second.
C27_FilterAfterPairing ==
    pc = "headways" =>
        /\ \A k \in 1..Len(df_hw) :
              /\ EarlierInGroup(df_hw[k]) # {}
              /\ df_hw[k].prev_arrival = SetMax(EarlierInGroup(df_hw[k]))
              /\ df_hw[k].headway_min
                    = Rat(df_hw[k].row.arrival_dt - SetMax(EarlierInGroup(df_hw[k])), 60)
        /\ ( /\ Len(df_raw) = 3
             /\ {df_raw[i] : i \in 1..3}
                   = {[stop_id |-> B06N, arrival_dt |-> t] : t \in {28800, 28830, 29160}} )
           => /\ Len(df_hw) = 1
              /\ df_hw[1].row.arrival_dt = 29160
              /\ df_hw[1].prev_arrival = 28830
              /\ RatEQ(df_hw[1].headway_min, Rat(11, 2))

\* 08:00:00, 08:00:30 and 08:06:00 northbound: the half-minute observation
\* of the second arrival is dropped and the third is measured from it
C27_Witness ==
    /\ pc = "headways"
    /\ Len(df_raw) = 3
    /\ df_raw[1] = [stop_id |-> B06N, arrival_dt |-> 29160]
    /\ df_raw[2] = [stop_id |-> B06N, arrival_dt |-> 28800]
    /\ df_raw[3] = [stop_id |-> B06N, arrival_dt |-> 28830]
    /\ Len(df_hw) = 1
    /\ df_hw[1].prev_idx = 3
    /\ df_hw[1].headway_min = Rat(330, 60)

\* 09:01:00, 10:26:00 and 10:31:00 northbound: the 85-minute observation of
\* the second arrival is dropped by the ceiling and the third is measured
\* from it
C27_WitnessCeiling ==
    /\ pc = "headways"
    /\ Len(df_raw) = 3
    /\ df_raw[1] = [stop_id |-> B06N, arrival_dt |-> 32460]
    /\ df_raw[2] = [stop_id |-> B06N, arrival_dt |-> 37560]
    /\ df_raw[3] = [stop_id |-> B06N, arrival_dt |-> 37860]
    /\ Len(df_hw) = 1
    /\ df_hw[1].prev_idx = 2
    /\ df_hw[1].headway_min = Rat(300, 60)

\* ---------------------------------------------------------------------
\* C28
\* ---------------------------------------------------------------------

\* row i of a prepared table is row i of the persisted one, with the same
\* period and day type
SameRows(t) ==
    /\ Len(t) = Len(hw_csv)
    /\ \A i \in 1..Len(hw_csv) :
          /\ t[i].arrival_dt = hw_csv[i].arrival_dt
          /\ t[i].direction = hw_csv[i].direction
          /\ t[i].headway_min = hw_csv[i].headway_min
          /\ t[i].swap_period = hw_csv[i].swap_period
          /\ t[i].day_type = hw_csv[i].day_type

C28_WitnessCommunity ==
    /\ pc = "community"
    /\ \E i \in 1..Len(comm_df) :
          /\ comm_df[i].hour < 6
          /\ RatGT(comm_df[i].headway_min, Rat(60, 1))

\* ---------------------------------------------------------------------
\* C29
\* ---------------------------------------------------------------------

\* the sum of the n column of a summary table
RECURSIVE SumOfN(_)
SumOfN(s) == IF s = <<>> THEN 0 ELSE Head(s).n + SumOfN(Tail(s))

\* the four group columns of a summary row
RowKey(r) == <<r.day_type, r.time_bucket, r.swap_period, r.direction>>

\* C29: the rows of a summary partition the observations: every observation
\* is counted in exactly one row, the n of the rows add up to the number of
\* observations, no row has n = 0, and no two rows stand for the same
\* combination of day_type, time_bucket, swap_period and direction.
C29_RowsPartitionObservations ==
    \A k \in 1..Len(summary) :
        LET s == summary[k] IN
        /\ SumOfN(s) = Len(df_hw)
        /\ \A j \in 1..Len(s) :
              /\ s[j].n >= 1
              /\ s[j].n = Cardinality({i \in 1..Len(df_hw) : InRow(df_hw[i], s[j])})
        /\ \A i \in 1..Len(df_hw) : \E j \in 1..Len(s) : InRow(df_hw[i], s[j])
        /\ \A i, j \in 1..Len(s) : RowKey(s[i]) = RowKey(s[j]) => i = j
        /\ Len(s) = Cardinality({SummaryGroup(df_hw[i]) : i \in 1..Len(df_hw)})

\* a summary of two rows whose day types and directions both differ, so that
\* two of the four combinations of these values have no observation
C29_Witness ==
    /\ summary # <<>>
    /\ Len(summary[1]) = 2
    /\ Len(df_hw) >= 3
    /\ summary[1][1].day_type # summary[1][2].day_type
    /\ summary[1][1].direction # summary[1][2].direction

\* ---------------------------------------------------------------------
\* C30
\* ---------------------------------------------------------------------

\* C30: on a table prepared by the dashboard loader, get_pct_over asked for
\* day_type "Weekend" returns None whatever the threshold, direction and
\* period: no row is both within the swap window and of day type "Weekend".
C30_WeekendPctOverIsNone ==
    /\ \A i \in 1..Len(dash_df) :
          ~(dash_df[i].within_swap_window /\ dash_df[i].day_type = "Weekend")
    /\ (q_call.fn = "get_pct_over" /\ q_call.day_type = "Weekend")
          => q_call.result = None
    /\ pc = "dashboard" =>
          \A threshold \in Thresholds, direction \in Directions, period \in Periods :
              get_pct_over(dash_df, threshold, direction, period, "Weekend") = None

\* a "Weekend" call on a table holding a Saturday row of the asked direction
\* and period, in a bucket of the active hours
C30_Witness ==
    /\ q_call.fn = "get_pct_over"
    /\ q_call.day_type = "Weekend"
    /\ \E i \in 1..Len(dash_df) :
          /\ dash_df[i].day_type = "Weekend"
          /\ dash_df[i].direction = q_call.direction
          /\ dash_df[i].swap_period = q_call.period
          /\ dash_df[i].time_bucket \in SWAP_ACTIVE_BUCKETS
====
